---- MODULE Spec2Model ----
(***************************************************************************)
(* The TM launch module of PRRTE (src/mca/plm/tm/plm_tm_module.c): the     *)
(* launch-daemons handler, the poll step, connect, finalize and the module *)
(* init, running on the single-threaded event loop of the job state        *)
(* machine.  A handler is one atomic action; what the backend, the mapper  *)
(* and the allocator answer is drawn from small sets.                       *)
(*                                                                         *)
(* The buffer and value functions of the DSS (src/dss/dss_load_unload.c):  *)
(* load, unload and copy_payload of a buffer over a heap of regions, and   *)
(* load, unload and xfer of a typed value whose data union is kept as its  *)
(* sixteen bytes over a heap of blocks.  Each call is one atomic action.   *)
(***************************************************************************)
EXTENDS Integers, Sequences, FiniteSets, TLC

\* ------------------------------------------------------------------ bounds
NumSlots == 2
MaxQueue == 1
MaxActivations == 3
MaxRegions == 3
MaxLen == 2
MaxBytes == 3
InitialSize == 2
MaxOps == 6
MaxBlocks == 5
MaxVOps == 3

\* ------------------------------------------------------- program constants
\* for (count = 0 ; count < 10; ++count) in plm_tm_connect
ConnectTries == 10

\* ---------------------------------------------------------------- data
\* The job objects of the process: the daemon job (the object returned by
\* prte_get_job_data_object(PRTE_PROC_MY_NAME->nspace)), an application job
\* and a debugger-daemon job.
Jobs == {"daemons", "app", "dbg"}

DaemonsJob == "daemons"

\* PRTE_FLAG_TEST(jdata, PRTE_JOB_FLAG_DEBUGGER_DAEMON)
DEBUGGER_DAEMON(j) == j = "dbg"

\* job states used by this module
JobStates == {"UNDEF", "INIT", "MAP", "LAUNCH_DAEMONS", "DAEMONS_LAUNCHED",
              "DAEMONS_REPORTED", "FAILED_TO_START"}

Slots == 1..NumSlots

\* an empty slot of the pointer array map->nodes
NoNode == [present |-> FALSE, daemon_launched |-> FALSE]

\* prte_node_t as the handler reads it: the PRTE_NODE_FLAG_DAEMON_LAUNCHED flag
Nodes == {[present |-> TRUE, daemon_launched |-> TRUE],
          [present |-> TRUE, daemon_launched |-> FALSE]}

\* node->daemon->name.rank of the node in slot i (the HNP, rank 0, sits in
\* the first slot)
NodeRank(i) == i - 1

\* the value of the node's PRTE_NODE_LAUNCH_ID attribute (the TM node id)
NodeLaunchId(i) == 100 + i

\* daemons->map == NULL
NullMap == [present |-> FALSE, nodes |-> << >>, num_new_daemons |-> 0]

\* the nodes of the array ns whose daemon has not been launched
NewDaemonNodes(ns) == {i \in DOMAIN ns : ns[i].present /\ ~ns[i].daemon_launched}

\* prte_job_map_t: the nodes array and num_new_daemons, which counts nodes
\* added for this launch, all of them still without the daemon-launched flag
Maps == UNION { {[present |-> TRUE, nodes |-> ns, num_new_daemons |-> k] :
                    k \in 0..Cardinality(NewDaemonNodes(ns))} :
                ns \in [Slots -> Nodes \cup {NoNode}] }
        \cup {NullMap}

\* the daemon command line built by prte_plm_base_setup_prted_cmd and
\* prte_plm_base_prted_append_basic_args, with the slot reserved for the rank
BaseArgv == <<"prted", "--prtemca", "ess_base_vpid", "<template>">>

proc_vpid_index == 4

\* prte_util_convert_vpid_to_string: the decimal text of the rank
vpid_to_string(rank) == ToString(rank)

VARIABLES
    handler,        \* the state-handler registry: job state -> handler
    initialized,    \* plm_tm_init has run
    connected,      \* static bool connected
    launched,       \* static int32_t launched
    jobstate,       \* jdata->state of every job object
    do_not_launch,  \* attribute PRTE_JOB_DO_NOT_LAUNCH of the daemon job object
    queue,          \* the event queue of the loop: activated (job, state) pairs
    running,        \* the event whose handler the loop is running
    alive,          \* the process is running (no exit(), no crash)
    nact,           \* number of activations made by the other components
    recorded,       \* spawn handles recorded by the most recent launch attempt
    has_connected,  \* plm_tm_connect has succeeded in this process
    last            \* what the most recent operation of the module did

tmvars == <<handler, initialized, connected, launched, jobstate,
            do_not_launch, queue, running, alive, nact, recorded,
            has_connected, last>>

VARIABLES
    heap,           \* the allocator: every region, allocated or not, and its bytes
    buf,            \* the prrte_buffer_t objects
    held,           \* the regions the caller holds a pointer to and has to free
    loaded,         \* per buffer: the region loaded into it and untouched since
    balive,         \* the process using the buffers is running
    nops,           \* number of steps the users of the buffers have made
    blast           \* what the most recent buffer operation did

bufvars == <<heap, buf, held, loaded, balive, nops, blast>>

VARIABLES
    vheap,          \* the blocks strdup and malloc hand out: live, owner, bytes
    val,            \* per prrte_value_t: key, type and the bytes of the data union
    vstored,        \* per value: the source of the load nothing has touched since
    xferred,        \* the transfer whose dest nothing has written since
    valive,         \* the process using the values is running
    vnops,          \* the number of value operations done
    vlast           \* the most recent value operation

valvars == <<vheap, val, vstored, xferred, valive, vnops, vlast>>

vars == <<tmvars, bufvars, valvars>>


\* ------------------------------------------------- PRTE_ACTIVATE_JOB_STATE
\* an activation: the caddy queued for the handler of `state` with jdata = job
Activation(j, s) == [job |-> j, state |-> s]

\* the loop is between two events
NoEvent == Activation("none", "none")

\* ------------------------------------------------------------ plm_tm_connect
\* what tm_init answers at each attempt (TRUE is TM_SUCCESS)
TmInitScripts ==
    { [i \in 1..ConnectTries |-> FALSE],
      [i \in 1..ConnectTries |-> TRUE],
      [i \in 1..ConnectTries |-> i >= 3],
      [i \in 1..ConnectTries |-> i = 2],
      [i \in 1..ConnectTries |-> i = ConnectTries] }

\* the loop of plm_tm_connect from attempt `count` on: the return code and
\* what the tm_init calls made answered
RECURSIVE connect_loop(_, _)
connect_loop(script, count) ==
    IF count < ConnectTries
    THEN IF script[count + 1]
         THEN [rc |-> "SUCCESS", calls |-> SubSeq(script, 1, count + 1)]
         ELSE connect_loop(script, count + 1)
    ELSE [rc |-> "ERR_RESOURCE_BUSY", calls |-> SubSeq(script, 1, count)]

\* plm_tm_connect answering PRTE_SUCCESS after the loop as well
plm_tm_connect_never_busy(script) ==
    [connect_loop(script, 0) EXCEPT !.rc = "SUCCESS"]

\* plm_tm_connect: the loop from the first attempt
plm_tm_connect(script) == connect_loop(script, 0)

\* launch_daemons connecting whatever `connected` holds
must_connect_always(conn) == TRUE

\* if (!connected) in launch_daemons
must_connect(conn) == ~conn

\* ------------------------------------------------------------ launch_daemons
\* skip_slot without the test of the daemon-launched flag
skip_slot_ignores_flag(node) == ~node.present

\* the tests of the spawn loop that skip a slot: an empty slot, or a node
\* whose daemon already exists
skip_slot(node) == (~node.present) \/ node.daemon_launched

\* the argv of one tm_spawn: the rank text of the node put in the reserved slot
node_argv(argv, i) == [argv EXCEPT ![proc_vpid_index] = vpid_to_string(NodeRank(i))]

\* one call of tm_spawn: the node, argv, the launch id, and the index into
\* tm_task_ids and tm_events (allocated with `size` entries) it writes to
SpawnCall(i, argv, idx, size) ==
    [slot |-> i, argv |-> argv, launchid |-> NodeLaunchId(i), idx |-> idx, size |-> size]

\* spawn_loop with the failure of tm_spawn noted and the loop going on
RECURSIVE spawn_loop_keeps_going(_, _, _, _, _, _)
spawn_loop_keeps_going(m, i, n, calls, argv, in) ==
    IF i > Len(m.nodes)
    THEN [res |-> IF \E k \in 1..Len(calls) : calls[k].slot \in in.spawn_fail
                  THEN "spawn_failed" ELSE "ok",
          launched |-> n, spawns |-> calls, stopped_at |-> 0]
    ELSE IF skip_slot(m.nodes[i])
    THEN spawn_loop_keeps_going(m, i + 1, n, calls, argv, in)
    ELSE spawn_loop_keeps_going(m, i + 1, IF i \in in.spawn_fail THEN n ELSE n + 1,
             Append(calls, SpawnCall(i, node_argv(argv, i), n, m.num_new_daemons)),
             node_argv(argv, i), in)

\* the spawn loop from slot i on, with n the value of `launched`: how it
\* ended, the value of `launched`, the tm_spawn calls made, and the slot of
\* the node it stopped at (0 when it ran to the end)
RECURSIVE spawn_loop(_, _, _, _, _, _)
spawn_loop(m, i, n, calls, argv, in) ==
    IF i > Len(m.nodes)
    THEN [res |-> "ok", launched |-> n, spawns |-> calls, stopped_at |-> 0]
    ELSE LET node == m.nodes[i] IN
         IF skip_slot(node)
         THEN spawn_loop(m, i + 1, n, calls, argv, in)
         ELSE IF i \in in.vpid_fail
         THEN [res |-> "exit", launched |-> n, spawns |-> calls, stopped_at |-> i]
         ELSE LET av == node_argv(argv, i) IN
              IF i \in in.launch_id_fail
              THEN [res |-> "no_launch_id", launched |-> n, spawns |-> calls,
                    stopped_at |-> i]
              ELSE LET call == SpawnCall(i, av, n, m.num_new_daemons) IN
                   IF in.segv /\ n >= m.num_new_daemons
                   THEN [res |-> "crash", launched |-> n,
                         spawns |-> Append(calls, call), stopped_at |-> i]
                   ELSE IF i \in in.spawn_fail
                   THEN [res |-> "spawn_failed", launched |-> n,
                         spawns |-> Append(calls, call), stopped_at |-> i]
                   ELSE spawn_loop(m, i + 1, n + 1, Append(calls, call), av, in)

\* the cleanup label activating FAILED_TO_START on the job of the caddy
failed_launch_job_jdata(jdata) == jdata

\* the job object the cleanup label activates FAILED_TO_START on
failed_launch_job(jdata) == DaemonsJob

\* the call of prte_plm_base_setup_virtual_machine and its return code
setup_virtual_machine(r, in) ==
    [r EXCEPT !.vm_calls = 1, !.vm_rc = IF in.vm_ok THEN "SUCCESS" ELSE "ERROR"]

\* the short circuit without the activation of DAEMONS_REPORTED
short_circuit_no_report(jdata, r, p) ==
    [r EXCEPT !.path = p,
              !.jobstate = [r.jobstate EXCEPT ![jdata] = "DAEMONS_LAUNCHED"],
              !.marked = {jdata},
              !.released = 1]

\* the short circuit: jdata->state = DAEMONS_LAUNCHED, activate
\* DAEMONS_REPORTED, release the caddy, return
short_circuit(jdata, r, p) ==
    [r EXCEPT !.path = p,
              !.jobstate = [r.jobstate EXCEPT ![jdata] = "DAEMONS_LAUNCHED"],
              !.marked = {jdata},
              !.acts = <<Activation(jdata, "DAEMONS_REPORTED")>>,
              !.released = 1]

\* the cleanup label with failed_launch still true
failed_launch(jdata, r, p) ==
    [r EXCEPT !.path = p,
              !.released = 1,
              !.acts = <<Activation(failed_launch_job(jdata), "FAILED_TO_START")>>]

\* the end of the handler after the spawn loop ran to the end
spawned_all(jdata, r) ==
    [r EXCEPT !.path = "launched",
              !.jobstate = [r.jobstate EXCEPT ![jdata] = "DAEMONS_LAUNCHED",
                                             ![DaemonsJob] = "DAEMONS_LAUNCHED"],
              !.marked = {jdata, DaemonsJob},
              !.released = 1]

\* the process ends inside the handler: exit(-1), or a crash
process_ends(r, p) == [r EXCEPT !.path = p, !.alive = FALSE]

\* from the spawn loop to the end of the handler
launch_spawns(jdata, st, in, r) ==
    LET l  == spawn_loop(r.map, 1, st.launched, << >>, BaseArgv, in)
        r2 == [r EXCEPT !.launched = l.launched, !.spawns = l.spawns,
                        !.stopped_at = l.stopped_at]
    IN  CASE l.res = "ok" -> spawned_all(jdata, r2)
          [] l.res \in {"no_launch_id", "spawn_failed"} -> failed_launch(jdata, r2, l.res)
          [] OTHER -> process_ends(r2, l.res)

\* from the connect step to the end of the handler
launch_connect(jdata, st, in, r) ==
    IF must_connect(st.connected)
    THEN LET c == plm_tm_connect(in.tm_init) IN
         IF c.rc # "SUCCESS"
         THEN failed_launch(jdata, [r EXCEPT !.tm_init = c.calls], "connect_busy")
         ELSE launch_spawns(jdata, st, in,
                            [r EXCEPT !.tm_init = c.calls, !.connected = TRUE])
    ELSE launch_spawns(jdata, st, in, r)

\* launch_daemons without the test of the debugger-daemon flag
launch_daemons_no_debugger_test(jdata, st, in) ==
    LET r0 == [path |-> "", connected |-> st.connected, launched |-> st.launched,
               jobstate |-> st.jobstate, map |-> in.map, marked |-> {},
               acts |-> << >>, spawns |-> << >>, stopped_at |-> 0,
               tm_init |-> << >>, vm_calls |-> 0, vm_rc |-> "none",
               alive |-> TRUE, released |-> 0]
        r1 == setup_virtual_machine(r0, in)
    IN  IF ~in.vm_ok THEN failed_launch(jdata, r1, "vm_error")
        ELSE IF st.do_not_launch THEN short_circuit(jdata, r1, "do_not_launch")
        ELSE IF ~r1.map.present THEN failed_launch(jdata, r1, "no_map")
        ELSE IF r1.map.num_new_daemons = 0
        THEN short_circuit(jdata, r1, "no_new_daemons")
        ELSE launch_connect(jdata, st, in, r1)

\* the handler of LAUNCH_DAEMONS, run for the caddy of job jdata in the
\* state st, the environment answering `in`; in.map is daemons->map as the
\* mapper and the VM setup leave it
launch_daemons(jdata, st, in) ==
    LET r0 == [path |-> "", connected |-> st.connected, launched |-> st.launched,
               jobstate |-> st.jobstate, map |-> in.map, marked |-> {},
               acts |-> << >>, spawns |-> << >>, stopped_at |-> 0,
               tm_init |-> << >>, vm_calls |-> 0, vm_rc |-> "none",
               alive |-> TRUE, released |-> 0]
        r1 == setup_virtual_machine(r0, in)
    IN  IF DEBUGGER_DAEMON(jdata) THEN short_circuit(jdata, r0, "debugger")
        ELSE IF ~in.vm_ok THEN failed_launch(jdata, r1, "vm_error")
        ELSE IF st.do_not_launch THEN short_circuit(jdata, r1, "do_not_launch")
        ELSE IF ~r1.map.present THEN failed_launch(jdata, r1, "no_map")
        ELSE IF r1.map.num_new_daemons = 0
        THEN short_circuit(jdata, r1, "no_new_daemons")
        ELSE IF ~in.malloc_events THEN failed_launch(jdata, r1, "no_memory")
        ELSE IF ~in.malloc_task_ids THEN failed_launch(jdata, r1, "no_memory")
        ELSE launch_connect(jdata, st, in, r1)


\* --------------------------------------------------------------- poll_spawns
\* what the n calls of tm_poll answer: "ok", "rc" (tm_poll itself fails) or
\* "local_err" (the backend reports the spawn failed); at most one failure
PollScripts(n) ==
    { [i \in 1..n |-> "ok"] }
    \cup { [i \in 1..n |-> IF i = f THEN k ELSE "ok"] :
              f \in 1..n, k \in {"rc", "local_err"} }

\* the poll loop from i on, n being `launched`: whether it failed, and what
\* the tm_poll calls made answered
RECURSIVE poll_loop(_, _, _)
poll_loop(i, n, script) ==
    IF i < n
    THEN IF script[i + 1] # "ok"
         THEN [failed |-> TRUE, polls |-> SubSeq(script, 1, i + 1)]
         ELSE poll_loop(i + 1, n, script)
    ELSE [failed |-> FALSE, polls |-> SubSeq(script, 1, i)]

\* what the read of state->jdata gives once PRTE_RELEASE(state) has run: the
\* caddy is freed, so any job object, or a crash
StaleReads == Jobs \cup {"crash"}

\* the handler of DAEMONS_LAUNCHED that plm_tm_init installs, run for the
\* caddy of job jdata
poll_spawns(jdata, st, in) ==
    LET l  == poll_loop(0, st.launched, in.poll)
        r0 == [path |-> "", connected |-> st.connected, launched |-> st.launched,
               jobstate |-> st.jobstate, acts |-> << >>, polls |-> l.polls,
               alive |-> TRUE, released |-> 1, read_after_release |-> 0]
    IN  IF ~l.failed
        THEN [r0 EXCEPT !.path = "confirmed"]
        ELSE IF in.stale = "crash"
        THEN [r0 EXCEPT !.path = "crash", !.alive = FALSE, !.read_after_release = 1]
        ELSE [r0 EXCEPT !.path = "poll_failed", !.read_after_release = 1,
                        !.acts = <<Activation(in.stale, "FAILED_TO_START")>>]

\* ---------------------------------------------------------- plm_tm_launch_job
\* plm_tm_launch_job without the test of the restart flag
plm_tm_launch_job_always_init(jdata, restart) ==
    [acts |-> <<Activation(jdata, "INIT")>>, rc |-> "SUCCESS"]

\* plm_tm_launch_job for a job whose PRTE_JOB_FLAG_RESTART is `restart`: the
\* activation it makes and its return code
plm_tm_launch_job(jdata, restart) ==
    [acts |-> <<Activation(jdata, IF restart THEN "MAP" ELSE "INIT")>>,
     rc |-> "SUCCESS"]

\* ----------------------------------------------------------- plm_tm_finalize
\* plm_tm_finalize without the test of `connected`
plm_tm_finalize_always_closes(conn) ==
    [closes |-> 1, connected |-> FALSE, rc |-> "SUCCESS"]

\* the number of tm_finalize calls and the new value of `connected`
plm_tm_finalize(conn) ==
    IF conn THEN [closes |-> 1, connected |-> FALSE, rc |-> "SUCCESS"]
    ELSE [closes |-> 0, connected |-> conn, rc |-> "SUCCESS"]

\* ---------------------------------------------------------- plm_tm_signal_job
\* signal numbers callers pass, and what
\* prte_plm_base_prted_signal_local_procs answers
Signals == {9, 15}

SignalStatus == {"SUCCESS", "ERR_COMM_FAILURE"}

\* plm_tm_signal_job handing over a signal of its own
plm_tm_signal_job_sigterm(jobid, signal, status) ==
    [calls |-> <<[jobid |-> jobid, signal |-> 15]>>, rc |-> status]

\* the calls of prte_plm_base_prted_signal_local_procs it makes and what it
\* returns, `status` being what that call answers
plm_tm_signal_job(jobid, signal, status) ==
    [calls |-> <<[jobid |-> jobid, signal |-> signal]>>, rc |-> status]

\* --------------------------------------------------------------- plm_tm_init
\* the registry and the return code after plm_tm_init, given what
\* add_job_state and set_job_state_callback answer
plm_tm_init(reg, add_ok, set_ok) ==
    IF ~add_ok THEN [handler |-> reg, rc |-> "ERROR"]
    ELSE LET reg1 == [reg EXCEPT !["LAUNCH_DAEMONS"] = "launch_daemons"] IN
         IF ~set_ok THEN [handler |-> reg1, rc |-> "ERROR"]
         ELSE [handler |-> [reg1 EXCEPT !["DAEMONS_LAUNCHED"] = "poll_spawns"],
               rc |-> "SUCCESS"]

\* ===================================================== src/dss/dss_load_unload.c
\* ------------------------------------------------------------- the allocator
Regions == 1..MaxRegions

\* a region that is not allocated
FreeRegion == [live |-> FALSE, bytes |-> << >>]

\* a pointer: the region it points into and the offset in it
Ptr(r, o) == [r |-> r, o |-> o]

NULL == Ptr(0, 0)

\* the value of a byte nothing has been written to
Junk == 0

\* the bytes a caller puts in a region of length n it builds
Payload(n) == [i \in 1..n |-> i]

\* the byte the pack layer appends
PackedByte == 7

\* n bytes nothing has been written to
Unwritten(n) == [i \in 1..n |-> Junk]

\* malloc(n): the region it returns, 0 when no memory is left
malloc(h) ==
    IF \E r \in Regions : ~h[r].live
    THEN CHOOSE r \in Regions : ~h[r].live /\ \A q \in Regions : ~h[q].live => r <= q
    ELSE 0

\* free(p)
free(h, r) == [h EXCEPT ![r] = FreeRegion]

\* --------------------------------------------------------------- prrte_buffer_t
BufIds == {"b1", "b2"}

BufTypes == {"NON_DESC", "FULLY_DESC"}

\* the type a constructed buffer has
DefaultType == "NON_DESC"

\* PRRTE_CONSTRUCT(buffer, prrte_buffer_t)
PRRTE_CONSTRUCT ==
    [type |-> DefaultType, base_ptr |-> NULL, pack_ptr |-> NULL,
     unpack_ptr |-> NULL, bytes_allocated |-> 0, bytes_used |-> 0]

\* PRRTE_DESTRUCT(buffer): the heap after it and the regions it freed
PRRTE_DESTRUCT(h, b) ==
    IF b.base_ptr # NULL
    THEN [heap |-> free(h, b.base_ptr.r), freed |-> <<b.base_ptr.r>>]
    ELSE [heap |-> h, freed |-> << >>]

\* the size the backing region grows to: doubled from what is allocated (from
\* the initial size for an empty buffer) until `required` bytes fit
RECURSIVE grow_to(_, _)
grow_to(to_alloc, required) ==
    IF to_alloc >= required THEN to_alloc ELSE grow_to(2 * to_alloc, required)

\* prrte_dss_buffer_extend(buffer, bytes_to_add): the heap and the buffer
\* after it and the pointer it returns (NULL when no memory is left); `move`
\* tells whether realloc moves the region
prrte_dss_buffer_extend(h, b, bytes_to_add, move) ==
    IF b.bytes_allocated - b.bytes_used >= bytes_to_add
    THEN [heap |-> h, buf |-> b, ptr |-> b.pack_ptr]
    ELSE LET required == b.bytes_used + bytes_to_add
             to_alloc == grow_to(IF b.bytes_allocated = 0 THEN InitialSize
                                 ELSE b.bytes_allocated, required)
         IN  IF b.base_ptr # NULL
             THEN LET old == b.base_ptr.r
                      new == IF move /\ malloc(h) # 0 THEN malloc(h) ELSE old
                      grown == h[old].bytes \o Unwritten(to_alloc - Len(h[old].bytes))
                      h1 == [(IF new = old THEN h ELSE free(h, old))
                                EXCEPT ![new] = [live |-> TRUE, bytes |-> grown]]
                      b1 == [b EXCEPT !.base_ptr = Ptr(new, 0),
                                      !.pack_ptr = Ptr(new, b.pack_ptr.o),
                                      !.unpack_ptr = Ptr(new, b.unpack_ptr.o),
                                      !.bytes_allocated = to_alloc]
                  IN  [heap |-> h1, buf |-> b1, ptr |-> b1.pack_ptr]
             ELSE LET new == malloc(h) IN
                  IF new = 0
                  THEN [heap |-> h, buf |-> [b EXCEPT !.bytes_used = 0], ptr |-> NULL]
                  ELSE LET b1 == [b EXCEPT !.base_ptr = Ptr(new, 0),
                                           !.pack_ptr = Ptr(new, 0),
                                           !.unpack_ptr = Ptr(new, 0),
                                           !.bytes_used = 0,
                                           !.bytes_allocated = to_alloc]
                       IN  [heap |-> [h EXCEPT ![new] =
                                        [live |-> TRUE, bytes |-> Unwritten(to_alloc)]],
                            buf |-> b1, ptr |-> b1.pack_ptr]

\* memcpy(dst, src, n) with dst a pointer into region dst.r
memcpy(h, dst, bytes) ==
    [h EXCEPT ![dst.r].bytes =
        [i \in 1..Len(@) |-> IF i > dst.o /\ i <= dst.o + Len(bytes)
                             THEN bytes[i - dst.o] ELSE @[i]]]

\* the n bytes at pointer p
bytes_at(h, p, n) == SubSeq(h[p.r].bytes, p.o + 1, p.o + n)

\* ------------------------------------------------------------ prrte_dss_unload
\* what one buffer operation gives back: the heap and the buffer after it,
\* the return code, the payload and length handed to the caller, the regions
\* freed, and whether the process is still running
BufResult(h, b) ==
    [heap |-> h, buf |-> b, rc |-> "SUCCESS", payload |-> NULL, bytes_used |-> 0,
     freed |-> << >>, alive |-> TRUE, path |-> ""]

\* the cleanup label of prrte_dss_unload: destruct and construct the buffer
unload_cleanup(r) ==
    LET d == PRRTE_DESTRUCT(r.heap, r.buf) IN
    [r EXCEPT !.heap = d.heap, !.freed = d.freed, !.buf = PRRTE_CONSTRUCT]

\* prrte_dss_unload without the test of unpack_ptr against base_ptr: the
\* region is handed over whatever has been unpacked
prrte_dss_unload_hands_over(h, b) ==
    LET r0 == BufResult(h, b) IN
    IF b.base_ptr = NULL \/ b.bytes_used = 0
    THEN [r0 EXCEPT !.path = "empty"]
    ELSE unload_cleanup([r0 EXCEPT !.payload = b.base_ptr,
                                   !.bytes_used = b.bytes_used,
                                   !.buf = [b EXCEPT !.base_ptr = NULL,
                                                     !.bytes_used = 0],
                                   !.path = "handed_over"])

\* prrte_dss_unload(buffer, &payload, &bytes_used) on a buffer b, both
\* arguments non-null
prrte_dss_unload(h, b) ==
    LET r0 == BufResult(h, b) IN
    IF b.base_ptr = NULL \/ b.bytes_used = 0
    THEN [r0 EXCEPT !.path = "empty"]
    ELSE IF b.unpack_ptr = b.base_ptr
    THEN unload_cleanup([r0 EXCEPT !.payload = b.base_ptr,
                                   !.bytes_used = b.bytes_used,
                                   !.buf = [b EXCEPT !.base_ptr = NULL,
                                                     !.bytes_used = 0],
                                   !.path = "handed_over"])
    ELSE LET n == b.bytes_used - (b.unpack_ptr.o - b.base_ptr.o) IN
         IF n = 0
         THEN unload_cleanup([r0 EXCEPT !.path = "consumed"])
         ELSE LET new == malloc(h) IN
              IF new = 0
              THEN [r0 EXCEPT !.rc = "none", !.alive = FALSE, !.path = "crash"]
              ELSE unload_cleanup(
                     [r0 EXCEPT !.heap = [h EXCEPT ![new] =
                                     [live |-> TRUE,
                                      bytes |-> bytes_at(h, b.unpack_ptr, n)]],
                                !.payload = Ptr(new, 0),
                                !.bytes_used = n,
                                !.path = "copied"])

\* -------------------------------------------------------------- prrte_dss_load
\* prrte_dss_load leaving pack_ptr at the start of the payload
prrte_dss_load_pack_at_base(h, b, payload, bytes_used) ==
    LET d  == PRRTE_DESTRUCT(h, b)
        r0 == [BufResult(d.heap, PRRTE_CONSTRUCT) EXCEPT !.freed = d.freed]
    IN  IF payload = NULL
        THEN [r0 EXCEPT !.path = "null_payload"]
        ELSE [r0 EXCEPT !.path = "loaded",
                        !.buf = [PRRTE_CONSTRUCT EXCEPT
                                    !.base_ptr = payload,
                                    !.pack_ptr = payload,
                                    !.unpack_ptr = payload,
                                    !.bytes_allocated = bytes_used,
                                    !.bytes_used = bytes_used]]

\* prrte_dss_load without the destruct of the buffer
prrte_dss_load_keeps_region(h, b, payload, bytes_used) ==
    LET r0 == BufResult(h, PRRTE_CONSTRUCT)
    IN  IF payload = NULL
        THEN [r0 EXCEPT !.path = "null_payload"]
        ELSE [r0 EXCEPT !.path = "loaded",
                        !.buf = [PRRTE_CONSTRUCT EXCEPT
                                    !.base_ptr = payload,
                                    !.pack_ptr = Ptr(payload.r, payload.o + bytes_used),
                                    !.unpack_ptr = payload,
                                    !.bytes_allocated = bytes_used,
                                    !.bytes_used = bytes_used]]

\* prrte_dss_load(buffer, payload, bytes_used) on a non-null buffer b
prrte_dss_load(h, b, payload, bytes_used) ==
    LET d  == PRRTE_DESTRUCT(h, b)
        r0 == [BufResult(d.heap, PRRTE_CONSTRUCT) EXCEPT !.freed = d.freed]
    IN  IF payload = NULL
        THEN [r0 EXCEPT !.path = "null_payload"]
        ELSE [r0 EXCEPT !.path = "loaded",
                        !.buf = [PRRTE_CONSTRUCT EXCEPT
                                    !.base_ptr = payload,
                                    !.pack_ptr = Ptr(payload.r, payload.o + bytes_used),
                                    !.unpack_ptr = payload,
                                    !.bytes_allocated = bytes_used,
                                    !.bytes_used = bytes_used]]

\* ------------------------------------------------------ prrte_dss_copy_payload
\* prrte_dss_copy_payload copying from the base of src, not from its unpack
\* position
prrte_dss_copy_payload_from_base(h, dest, src, move) ==
    IF dest.bytes_used # 0 /\ dest.type # src.type
    THEN [BufResult(h, dest) EXCEPT !.rc = "ERR_BUFFER", !.path = "type_mismatch"]
    ELSE LET d1 == [dest EXCEPT !.type = src.type]
             bytes_left == src.bytes_used - (src.unpack_ptr.o - src.base_ptr.o)
         IN  IF bytes_left = 0
             THEN [BufResult(h, d1) EXCEPT !.path = "nothing_left"]
             ELSE LET e == prrte_dss_buffer_extend(h, d1, bytes_left, move) IN
                  IF e.ptr = NULL
                  THEN [BufResult(e.heap, e.buf) EXCEPT
                            !.rc = "ERR_OUT_OF_RESOURCE", !.path = "no_memory"]
                  ELSE [BufResult(memcpy(e.heap, e.ptr,
                                         bytes_at(e.heap, src.base_ptr, bytes_left)),
                                  [e.buf EXCEPT
                                      !.bytes_used = @ + bytes_left,
                                      !.pack_ptr = Ptr(@.r, @.o + bytes_left)])
                            EXCEPT !.path = "copied"]

\* prrte_dss_copy_payload without the test of the types
prrte_dss_copy_payload_adopts_type(h, dest, src, move) ==
    LET d1 == [dest EXCEPT !.type = src.type]
        bytes_left == src.bytes_used - (src.unpack_ptr.o - src.base_ptr.o)
    IN  IF bytes_left = 0
        THEN [BufResult(h, d1) EXCEPT !.path = "nothing_left"]
        ELSE LET e == prrte_dss_buffer_extend(h, d1, bytes_left, move) IN
             IF e.ptr = NULL
             THEN [BufResult(e.heap, e.buf) EXCEPT
                       !.rc = "ERR_OUT_OF_RESOURCE", !.path = "no_memory"]
             ELSE [BufResult(memcpy(e.heap, e.ptr,
                                    bytes_at(e.heap, src.unpack_ptr, bytes_left)),
                             [e.buf EXCEPT
                                 !.bytes_used = @ + bytes_left,
                                 !.pack_ptr = Ptr(@.r, @.o + bytes_left)])
                       EXCEPT !.path = "copied"]

\* prrte_dss_copy_payload without the assignment of src's type to dest
prrte_dss_copy_payload_keeps_type(h, dest, src, move) ==
    IF dest.bytes_used # 0 /\ dest.type # src.type
    THEN [BufResult(h, dest) EXCEPT !.rc = "ERR_BUFFER", !.path = "type_mismatch"]
    ELSE LET bytes_left == src.bytes_used - (src.unpack_ptr.o - src.base_ptr.o)
         IN  IF bytes_left = 0
             THEN [BufResult(h, dest) EXCEPT !.path = "nothing_left"]
             ELSE LET e == prrte_dss_buffer_extend(h, dest, bytes_left, move) IN
                  IF e.ptr = NULL
                  THEN [BufResult(e.heap, e.buf) EXCEPT
                            !.rc = "ERR_OUT_OF_RESOURCE", !.path = "no_memory"]
                  ELSE [BufResult(memcpy(e.heap, e.ptr,
                                         bytes_at(e.heap, src.unpack_ptr, bytes_left)),
                                  [e.buf EXCEPT
                                      !.bytes_used = @ + bytes_left,
                                      !.pack_ptr = Ptr(@.r, @.o + bytes_left)])
                            EXCEPT !.path = "copied"]

\* prrte_dss_copy_payload(dest, src) on two non-null buffers; the result
\* holds dest
prrte_dss_copy_payload(h, dest, src, move) ==
    IF dest.bytes_used # 0 /\ dest.type # src.type
    THEN [BufResult(h, dest) EXCEPT !.rc = "ERR_BUFFER", !.path = "type_mismatch"]
    ELSE LET d1 == [dest EXCEPT !.type = src.type]
             bytes_left == src.bytes_used - (src.unpack_ptr.o - src.base_ptr.o)
         IN  IF bytes_left = 0
             THEN [BufResult(h, d1) EXCEPT !.path = "nothing_left"]
             ELSE LET e == prrte_dss_buffer_extend(h, d1, bytes_left, move) IN
                  IF e.ptr = NULL
                  THEN [BufResult(e.heap, e.buf) EXCEPT
                            !.rc = "ERR_OUT_OF_RESOURCE", !.path = "no_memory"]
                  ELSE [BufResult(memcpy(e.heap, e.ptr,
                                         bytes_at(e.heap, src.unpack_ptr, bytes_left)),
                                  [e.buf EXCEPT
                                      !.bytes_used = @ + bytes_left,
                                      !.pack_ptr = Ptr(@.r, @.o + bytes_left)])
                            EXCEPT !.path = "copied"]

\* --------------------------------------------------------- the buffer log
\* the bytes packed in buffer b, from base_ptr on
Packed(h, b) ==
    IF b.base_ptr = NULL THEN << >> ELSE bytes_at(h, b.base_ptr, b.bytes_used)

\* the packed bytes of buffer b not unpacked yet
Unread(h, b) ==
    IF b.base_ptr = NULL THEN << >>
    ELSE SubSeq(h[b.base_ptr.r].bytes, b.unpack_ptr.o + 1, b.bytes_used)

\* no region loaded and untouched since
NoLoad == [payload |-> NULL, bytes_used |-> 0]

\* op: the operation; buf: the buffer (dest of a copy); src: the source of a
\* copy; in_payload, in_len: the arguments of a load; payload, bytes_used:
\* what an unload gave back; pre, pre_src: the buffers before; pre_heap: the
\* heap before; pre_held: the regions the caller held before; pre_loaded:
\* the load of buf nothing has touched before this operation; freed: the
\* regions freed
NoBufOp == [op |-> "none", buf |-> "none", src |-> "none", rc |-> "none",
            path |-> "", in_payload |-> NULL, in_len |-> 0,
            payload |-> NULL, bytes_used |-> 0,
            pre |-> PRRTE_CONSTRUCT, pre_src |-> PRRTE_CONSTRUCT,
            pre_heap |-> [r \in Regions |-> FreeRegion], pre_held |-> {},
            pre_loaded |-> NoLoad, freed |-> << >>]

\* ------------------------------------------------------------------ the log
\* op: the operation; job: the job of its caddy; path: how it ended;
\* was_connected, was_launched: `connected` and `launched` when it began;
\* had_connected: a connect had succeeded before it began;
\* marked: the jobs whose state field it set; map: daemons->map during it;
\* then the calls it made and what they answered
NoOp == [op |-> "none", job |-> "none", path |-> "", restart |-> FALSE,
         was_connected |-> FALSE,
         had_connected |-> FALSE,
         was_launched |-> 0, marked |-> {}, map |-> NullMap, vm_calls |-> 0,
         vm_rc |-> "none", tm_init |-> << >>, spawns |-> << >>, stopped_at |-> 0,
         polls |-> << >>, acts |-> << >>, closes |-> 0,
         released |-> 0, read_after_release |-> 0,
         signal |-> 0, status |-> "none", signal_calls |-> << >>]

Began(op, j) == [NoOp EXCEPT !.op = op, !.job = j, !.was_connected = connected,
                             !.had_connected = has_connected,
                             !.was_launched = launched]

\* the state a handler reads
State == [connected |-> connected, launched |-> launched, jobstate |-> jobstate,
          do_not_launch |-> do_not_launch]

\* ------------------------------------------------------------ the environment
NoFailure == [vm_ok |-> TRUE, map |-> NullMap, malloc_events |-> TRUE, malloc_task_ids |-> TRUE,
              tm_init |-> [i \in 1..ConnectTries |-> TRUE],
              spawn_fail |-> {}, vpid_fail |-> {}, launch_id_fail |-> {},
              segv |-> FALSE]

\* the maps the handler goes on with to the allocation of the handle arrays
LaunchingMaps == {m \in Maps : m.present /\ m.num_new_daemons > 0}

\* the nodes of a map that have no daemon yet
Unflagged(m) == NewDaemonNodes(m.nodes)

\* what the allocator and the backend answer in one launch_daemons run over
\* the nodes S, besides all succeeding: one malloc fails; tm_init follows a
\* script (drawn only when the handler is not connected yet); tm_spawn fails
\* for some nodes; the rank of a node has no text; a node has no
\* PRTE_NODE_LAUNCH_ID attribute; a write outside the handle arrays crashes
BackendInputs(S, conn) ==
    { [NoFailure EXCEPT !.malloc_events = FALSE],
      [NoFailure EXCEPT !.malloc_task_ids = FALSE],
      [NoFailure EXCEPT !.segv = TRUE] }
    \cup { [NoFailure EXCEPT !.tm_init = s] :
              s \in (IF conn THEN {} ELSE TmInitScripts) }
    \cup { [NoFailure EXCEPT !.spawn_fail = {i}] : i \in S }
    \cup { [NoFailure EXCEPT !.vpid_fail = {i}] : i \in S }
    \cup { [NoFailure EXCEPT !.launch_id_fail = {i}] : i \in S }

\* what the collaborators of one launch_daemons run answer, each asked only
\* on the paths that call it
LaunchInputs(jdata, st) ==
    IF DEBUGGER_DAEMON(jdata) THEN { [NoFailure EXCEPT !.map = m] : m \in Maps }
    ELSE { [NoFailure EXCEPT !.vm_ok = FALSE, !.map = m] : m \in Maps }
         \cup { [NoFailure EXCEPT !.map = m] : m \in Maps }
         \cup (IF st.do_not_launch THEN {}
               ELSE UNION { { [in EXCEPT !.map = m] :
                                 in \in BackendInputs(Unflagged(m), st.connected) } :
                            m \in LaunchingMaps })

\* ------------------------------------------------------------ prrte_value_t
Blocks == 1..MaxBlocks

FreeBlock == [live |-> FALSE, owner |-> "none", bytes |-> << >>]

\* pointers to blocks: a block, NULL, or a value that is no pointer at all
NullPtr == 0

WildPtr == MaxBlocks + 1

\* a byte of memory: a plain byte of value v, or byte i of a pointer to
\* block p
Byte(v) == [p |-> 0, v |-> v]

PtrByte(p, i) == [p |-> p, v |-> i]

PointerSize == 8

\* sizeof the data union of prrte_value_t: its largest members are the
\* byte object and the struct timeval
UnionSize == 16

Zeroes(n) == [i \in 1..n |-> Byte(0)]

\* the object representation of a pointer
PtrBytes(p) ==
    IF p = NullPtr THEN Zeroes(PointerSize)
    ELSE [i \in 1..PointerSize |-> PtrByte(p, i)]

\* the pointer a member of pointer type reads from PointerSize bytes
PtrOf(b) ==
    IF b = Zeroes(PointerSize) THEN NullPtr
    ELSE IF \E q \in Blocks : b = PtrBytes(q)
    THEN CHOOSE q \in Blocks : b = PtrBytes(q)
    ELSE WildPtr

\* the object representation of a small int32_t, and back
Int32Bytes(n) == <<Byte(n % 256), Byte(n \div 256), Byte(0), Byte(0)>>

Int32Of(b) == b[1].v + 256 * b[2].v

\* member = bytes at offset off of the union; the bytes of a member
Write(data, off, bytes) ==
    [i \in 1..Len(data) |-> IF i > off /\ i <= off + Len(bytes)
                            THEN bytes[i - off] ELSE data[i]]

Read(data, off, w) == SubSeq(data, off + 1, off + w)

\* the kinds whose case copies the object by value, and their sizeof
Scalars == {"BOOL", "BYTE", "SIZE", "PID", "INT", "INT8", "INT16", "INT32",
            "INT64", "UINT", "UINT8", "UINT16", "UINT32", "UINT64", "FLOAT"}

Width(t) ==
    CASE t \in {"BOOL", "BYTE", "INT8", "UINT8"} -> 1
      [] t \in {"INT16", "UINT16"} -> 2
      [] t \in {"PID", "INT", "INT32", "UINT", "UINT32", "FLOAT", "VPID"} -> 4
      [] t \in {"SIZE", "INT64", "UINT64", "PTR", "STRING"} -> 8
      [] t \in {"TIMEVAL", "BYTE_OBJECT"} -> 16
      [] OTHER -> 0

\* offsets of the members that do not start the union: bo.bytes after
\* bo.size, tv.tv_usec after tv.tv_sec, name.vpid after name.jobid
bo_bytes_offset == 8

tv_usec_offset == 8

vpid_offset == 4

\* the data types callers pass: those of the three switches, PRRTE_VPID, and
\* two that no switch has
DataTypes == Scalars \cup {"STRING", "BYTE_OBJECT", "TIMEVAL", "PTR", "VPID",
                           "DOUBLE", "UNDEF"}

\* the values of the callers: the one they unload and transfer into, and
\* the one they transfer from
ValIds == {"dest", "src"}

\* the types with a case in the switch of prrte_value_load, of
\* prrte_value_unload and of prrte_value_xfer
LoadKinds == Scalars \cup {"STRING", "BYTE_OBJECT", "TIMEVAL", "PTR"}

UnloadKinds == LoadKinds \cup {"VPID"}

XferKinds == LoadKinds

\* PRRTE_CONSTRUCT(kv, prrte_value_t)
ConstructedValue ==
    [key |-> NullPtr, type |-> "UNDEF", data |-> Zeroes(UnionSize)]

\* what an undefined step does: it ends the process, or goes unnoticed
UBOutcomes == {"crash", "goes_on"}

\* the smallest block not allocated (callers see to it that there is one)
vmalloc(h) == CHOOSE q \in Blocks : ~h[q].live /\ \A o \in Blocks : ~h[o].live => q <= o

FreeBlocks(h) == {q \in Blocks : ~h[q].live}

\* what one value operation gives back: the heap and the value after it, the
\* return code, what it stored through the output slot, the pointers it
\* passed to free, and whether the process is still running
NoOut == [kind |-> "none", bytes |-> << >>, ptr |-> NullPtr, size |-> 0]

ValResult(h, kv) ==
    [heap |-> h, kv |-> kv, rc |-> "SUCCESS", out |-> NoOut, freed |-> << >>,
     alive |-> TRUE]

\* free(p) on the way of an operation with result r so far: of an allocated
\* block it frees the block, of anything else it is undefined
vfree(r, p, ub) ==
    IF p \in Blocks /\ r.heap[p].live
    THEN [r EXCEPT !.heap = [@ EXCEPT ![p] = FreeBlock], !.freed = Append(@, p)]
    ELSE [r EXCEPT !.freed = Append(@, p), !.alive = (ub # "crash")]

\* the bytes read through p: of an allocated block its bytes, of anything
\* else undefined (here: nothing, when the read goes unnoticed)
deref(h, p) == IF p \in Blocks /\ h[p].live THEN h[p].bytes ELSE << >>

readable(h, p) == p \in Blocks /\ h[p].live

\* memcpy of n bytes from p; what lies past the bytes of the block, or in a
\* block that was freed, reads as zero when the read goes on
readn(h, p, n) ==
    LET b == deref(h, p) IN [i \in 1..n |-> IF i <= Len(b) THEN b[i] ELSE 0]

\* strdup(p) / malloc + memcpy of bytes on the way of r: the block
\* vmalloc(r.heap) is allocated to the owner `who` and holds the bytes
valloc(r, bytes, who) ==
    [r EXCEPT !.heap = [@ EXCEPT ![vmalloc(r.heap)] =
                            [live |-> TRUE, owner |-> who, bytes |-> bytes]]]

\* ------------------------------------------------------------ prrte_value_load
\* the data argument: NULL, or a pointer to an object of the kind: its bytes
\* (scalars, timeval), the block of a string, or a byte object of `size`
\* bytes at `ptr`; for PRRTE_PTR the argument is the pointer `ptr` itself
NullData == [null |-> TRUE, bytes |-> << >>, ptr |-> NullPtr, size |-> 0]

ObjData(bytes) == [NullData EXCEPT !.null = FALSE, !.bytes = bytes]

PtrData(p) == [NullData EXCEPT !.null = (p = NullPtr), !.ptr = p]

BoData(size, p) == [NullData EXCEPT !.null = FALSE, !.ptr = p, !.size = size]

\* case PRRTE_STRING of load and of xfer: the string member is freed when
\* not NULL, then set to a copy of the string at src, or to NULL
install_string(r, src, ub) ==
    LET old == PtrOf(Read(r.kv.data, 0, PointerSize))
        f   == IF old # NullPtr THEN vfree(r, old, ub) ELSE r
    IN  IF ~f.alive THEN f
        ELSE IF src = NullPtr
        THEN [f EXCEPT !.kv.data = Write(@, 0, PtrBytes(NullPtr))]
        ELSE IF ~readable(f.heap, src) /\ ub = "crash"
        THEN [f EXCEPT !.alive = FALSE]
        ELSE LET new == vmalloc(f.heap) IN
             [valloc(f, deref(f.heap, src), "value")
                 EXCEPT !.kv.data = Write(@, 0, PtrBytes(new))]

\* case PRRTE_BYTE_OBJECT of load and of xfer: bo.bytes is freed when not
\* NULL, then the bytes of a non-empty source are copied, or bo is emptied;
\* has_bo tells whether the pointer to the source object is not NULL
install_bo(r, has_bo, size, bytes_ptr, ub) ==
    LET old == PtrOf(Read(r.kv.data, bo_bytes_offset, PointerSize))
        f   == IF old # NullPtr THEN vfree(r, old, ub) ELSE r
    IN  IF ~f.alive THEN f
        ELSE IF has_bo /\ bytes_ptr # NullPtr /\ 0 < size
        THEN IF ~readable(f.heap, bytes_ptr) /\ ub = "crash"
             THEN [f EXCEPT !.alive = FALSE]
             ELSE LET new == vmalloc(f.heap) IN
                  [valloc(f, readn(f.heap, bytes_ptr, size), "value")
                      EXCEPT !.kv.data = Write(Write(@, bo_bytes_offset, PtrBytes(new)),
                                               0, Int32Bytes(size))]
        ELSE [f EXCEPT !.kv.data = Write(Write(@, bo_bytes_offset, PtrBytes(NullPtr)),
                                         0, Int32Bytes(0))]

\* prrte_value_load(kv, data, type)
prrte_value_load(h, kv, data, type, ub) ==
    LET r0 == ValResult(h, [kv EXCEPT !.type = type]) IN
    IF data.null /\ type # "STRING" /\ type # "BYTE_OBJECT"
    THEN [r0 EXCEPT !.kv.data = Zeroes(UnionSize)]
    ELSE CASE type \in Scalars ->
                [r0 EXCEPT !.kv.data = Write(@, 0, SubSeq(data.bytes, 1, Width(type)))]
           [] type = "STRING" -> install_string(r0, data.ptr, ub)
           [] type = "BYTE_OBJECT" -> install_bo(r0, ~data.null, data.size, data.ptr, ub)
           [] type = "TIMEVAL" ->
                [r0 EXCEPT !.kv.data =
                    Write(Write(@, 0, SubSeq(data.bytes, 1, tv_usec_offset)),
                          tv_usec_offset,
                          SubSeq(data.bytes, tv_usec_offset + 1, Width("TIMEVAL")))]
           [] type = "PTR" -> [r0 EXCEPT !.kv.data = Write(@, 0, PtrBytes(data.ptr))]
           [] OTHER -> [r0 EXCEPT !.rc = "ERR_NOT_SUPPORTED"]

\* ---------------------------------------------------------- prrte_value_unload
\* the output slot `data`: whether it is NULL, and whether *data is NULL
OutSlots == {[data_null |-> FALSE, target_null |-> FALSE],
             [data_null |-> FALSE, target_null |-> TRUE],
             [data_null |-> TRUE, target_null |-> TRUE]}

GoodSlot == [data_null |-> FALSE, target_null |-> FALSE]

BytesOut(b) == [NoOut EXCEPT !.kind = "bytes", !.bytes = b]

PtrOut(q) == [NoOut EXCEPT !.kind = "ptr", !.ptr = q]

BoOut(size, q) == [NoOut EXCEPT !.kind = "bo", !.ptr = q, !.size = size]

\* the switch of prrte_value_unload
unload_switch(h, kv, type, ub) ==
    LET r0 == ValResult(h, kv) IN
    CASE type \in Scalars \cup {"TIMEVAL"} ->
            [r0 EXCEPT !.out = BytesOut(Read(kv.data, 0, Width(type)))]
      [] type = "STRING" ->
            LET q == PtrOf(Read(kv.data, 0, PointerSize)) IN
            IF q = NullPtr THEN [r0 EXCEPT !.out = PtrOut(NullPtr)]
            ELSE IF ~readable(h, q) /\ ub = "crash"
            THEN [r0 EXCEPT !.alive = FALSE]
            ELSE [valloc(r0, deref(h, q), "caller")
                     EXCEPT !.out = PtrOut(vmalloc(h))]
      [] type = "BYTE_OBJECT" ->
            LET q    == PtrOf(Read(kv.data, bo_bytes_offset, PointerSize))
                size == Int32Of(Read(kv.data, 0, 4))
            IN  IF q # NullPtr /\ 0 < size
                THEN IF ~readable(h, q) /\ ub = "crash"
                     THEN [r0 EXCEPT !.alive = FALSE]
                     ELSE [valloc(r0, readn(h, q, size), "caller")
                              EXCEPT !.out = BoOut(size, vmalloc(h))]
                ELSE [r0 EXCEPT !.out = BoOut(0, NullPtr)]
      [] type = "PTR" ->
            [r0 EXCEPT !.out = PtrOut(PtrOf(Read(kv.data, 0, PointerSize)))]
      [] type = "VPID" ->
            [r0 EXCEPT !.out = BytesOut(Read(kv.data, vpid_offset, Width("VPID")))]
      [] OTHER -> [r0 EXCEPT !.rc = "ERR_NOT_SUPPORTED"]

\* prrte_value_unload with the test of the slot before the test of the tag
prrte_value_unload_slot_first(h, kv, slot, type, ub) ==
    IF slot.data_null
       \/ (type # "STRING" /\ type # "BYTE_OBJECT" /\ slot.target_null)
    THEN [ValResult(h, kv) EXCEPT !.rc = "ERR_BAD_PARAM"]
    ELSE IF type # kv.type
    THEN [ValResult(h, kv) EXCEPT !.rc = "ERR_TYPE_MISMATCH"]
    ELSE unload_switch(h, kv, type, ub)

\* prrte_value_unload(kv, data, type)
prrte_value_unload(h, kv, slot, type, ub) ==
    IF type # kv.type
    THEN [ValResult(h, kv) EXCEPT !.rc = "ERR_TYPE_MISMATCH"]
    ELSE IF slot.data_null
            \/ (type # "STRING" /\ type # "BYTE_OBJECT" /\ slot.target_null)
    THEN [ValResult(h, kv) EXCEPT !.rc = "ERR_BAD_PARAM"]
    ELSE unload_switch(h, kv, type, ub)

\* ------------------------------------------------------------ prrte_value_xfer
\* lines 386-388: the key of src, when it has one, is copied into dest
xfer_key(r, src) ==
    IF src.key = NullPtr THEN r
    ELSE [valloc(r, deref(r.heap, src.key), "value")
             EXCEPT !.kv.key = vmalloc(r.heap)]

\* prrte_value_xfer(dest, src)
prrte_value_xfer(h, dest, src, ub) ==
    LET r0 == xfer_key(ValResult(h, dest), src)
        r1 == [r0 EXCEPT !.kv.type = src.type]
    IN  CASE src.type \in Scalars ->
                [r1 EXCEPT !.kv.data = Write(@, 0, Read(src.data, 0, Width(src.type)))]
          [] src.type = "STRING" ->
                install_string(r1, PtrOf(Read(src.data, 0, PointerSize)), ub)
          [] src.type = "BYTE_OBJECT" ->
                install_bo(r1, TRUE, Int32Of(Read(src.data, 0, 4)),
                           PtrOf(Read(src.data, bo_bytes_offset, PointerSize)), ub)
          [] src.type = "TIMEVAL" ->
                [r1 EXCEPT !.kv.data =
                    Write(Write(@, 0, Read(src.data, 0, tv_usec_offset)),
                          tv_usec_offset,
                          Read(src.data, tv_usec_offset, Width("TIMEVAL") - tv_usec_offset))]
          [] src.type = "PTR" ->
                [r1 EXCEPT !.kv.data = Write(@, 0, Read(src.data, 0, PointerSize))]
          [] OTHER -> [r1 EXCEPT !.rc = "ERR_NOT_SUPPORTED"]

\* ------------------------------------------------------------- the value log
\* what a load stored and nothing has touched since
NoStore == [active |-> FALSE, type |-> "UNDEF", data |-> NullData, content |-> << >>]

\* the transfer whose dest nothing has written since, and what an unload of
\* dest returned right after it
NoXfer == [active |-> FALSE, dest |-> "none", src |-> "none",
           view |-> [type |-> "UNDEF", bytes |-> << >>, null |-> TRUE, ok |-> TRUE]]

\* what an unload of kv with its own type returns, by content
View(h, kv) ==
    CASE kv.type = "STRING" ->
            LET q == PtrOf(Read(kv.data, 0, PointerSize)) IN
            [type |-> kv.type, bytes |-> deref(h, q), null |-> (q = NullPtr),
             ok |-> (q = NullPtr \/ readable(h, q))]
      [] kv.type = "BYTE_OBJECT" ->
            LET q    == PtrOf(Read(kv.data, bo_bytes_offset, PointerSize))
                size == Int32Of(Read(kv.data, 0, 4))
            IN  IF q # NullPtr /\ 0 < size
                THEN [type |-> kv.type, bytes |-> readn(h, q, size),
                      null |-> FALSE, ok |-> readable(h, q)]
                ELSE [type |-> kv.type, bytes |-> << >>, null |-> TRUE, ok |-> TRUE]
      [] kv.type = "VPID" ->
            [type |-> kv.type, bytes |-> Read(kv.data, vpid_offset, Width("VPID")),
             null |-> FALSE, ok |-> TRUE]
      [] OTHER ->
            [type |-> kv.type, bytes |-> Read(kv.data, 0, Width(kv.type)),
             null |-> FALSE, ok |-> TRUE]

\* the payload the tag of kv says the value owns: the string of a string
\* value, the bytes of a byte object value, NULL for any other
Owned(kv) ==
    CASE kv.type = "STRING" -> PtrOf(Read(kv.data, 0, PointerSize))
      [] kv.type = "BYTE_OBJECT" -> PtrOf(Read(kv.data, bo_bytes_offset, PointerSize))
      [] OTHER -> NullPtr

\* the most recent operation: its arguments, what it returned and stored
\* through the output slot, the pointers it passed to free, the type the
\* value had and the payload it owned when the operation began
NoValOp == [op |-> "none", v |-> "none", src |-> "none", type |-> "UNDEF",
            data |-> NullData, slot |-> GoodSlot, rc |-> "none", out |-> NoOut,
            freed |-> << >>, was_type |-> "UNDEF", owned |-> NullPtr]

\* the string the caller holds from the start
CallerString == <<5, 6>>

\* every value constructed, the caller holding one string
ValReset ==
    /\ vheap = [q \in Blocks |-> IF q = 1
                                  THEN [live |-> TRUE, owner |-> "caller",
                                        bytes |-> CallerString]
                                  ELSE FreeBlock]
    /\ val = [v \in ValIds |-> ConstructedValue]
    /\ vstored = [v \in ValIds |-> NoStore]
    /\ xferred = NoXfer
    /\ valive = TRUE
    /\ vnops = 0
    /\ vlast = NoValOp

\* no region allocated, every buffer constructed
BufReset ==
    /\ heap = [r \in Regions |-> FreeRegion]
    /\ buf = [b \in BufIds |-> PRRTE_CONSTRUCT]
    /\ held = {}
    /\ loaded = [b \in BufIds |-> NoLoad]
    /\ balive = TRUE
    /\ nops = 0
    /\ blast = NoBufOp

Init ==
    /\ BufReset
    /\ ValReset
    /\ handler = [s \in JobStates |-> "default"]
    /\ initialized = FALSE
    /\ connected = FALSE
    /\ launched = 0
    /\ jobstate = [j \in Jobs |-> "UNDEF"]
    /\ do_not_launch \in BOOLEAN
    /\ queue = << >>
    /\ running = NoEvent
    /\ alive = TRUE
    /\ nact = 0
    /\ recorded = 0
    /\ has_connected = FALSE
    /\ last = NoOp

\* the framework selects the module and calls its init; the process does not
\* start when the init fails
ModuleInit ==
    /\ UNCHANGED <<bufvars, valvars>>
    /\ alive /\ ~initialized
    /\ \E add_ok \in BOOLEAN, set_ok \in BOOLEAN :
          LET r == plm_tm_init(handler, add_ok, set_ok) IN
          /\ handler' = r.handler
          /\ alive' = (r.rc = "SUCCESS")
          /\ last' = [Began("init", "none") EXCEPT !.path = r.rc]
    /\ initialized' = TRUE
    /\ UNCHANGED <<connected, launched, jobstate, do_not_launch, queue, running,
                   nact, recorded, has_connected>>

\* a handler of another component, run by the loop between two events of
\* this module, activates a job state: LAUNCH_DAEMONS for a job, or
\* DAEMONS_LAUNCHED
Activate ==
    /\ UNCHANGED <<bufvars, valvars>>
    /\ alive /\ initialized /\ running = NoEvent
    /\ nact < MaxActivations
    /\ Len(queue) < MaxQueue
    /\ \E j \in Jobs, s \in {"LAUNCH_DAEMONS", "DAEMONS_LAUNCHED"} :
          queue' = Append(queue, Activation(j, s))
    /\ nact' = nact + 1
    /\ last' = NoOp
    /\ UNCHANGED <<handler, initialized, connected, launched, jobstate,
                   do_not_launch, running, alive, recorded, has_connected>>

\* the event loop takes the event at the head of the queue
Dispatch ==
    /\ UNCHANGED <<bufvars, valvars>>
    /\ alive /\ running = NoEvent /\ queue # << >>
    /\ running' = Head(queue)
    /\ queue' = Tail(queue)
    /\ last' = NoOp
    /\ UNCHANGED <<handler, initialized, connected, launched, jobstate,
                   do_not_launch, alive, nact, recorded, has_connected>>

\* the event loop runs launch_daemons for the event it took
LaunchDaemonsEvent ==
    /\ UNCHANGED <<bufvars, valvars>>
    /\ alive /\ running # NoEvent
    /\ handler[running.state] = "launch_daemons"
    /\ \E in \in LaunchInputs(running.job, State) :
        \E r \in {launch_daemons(running.job, State, in)} :
              /\ connected' = r.connected
              /\ launched' = r.launched
              /\ jobstate' = r.jobstate
              /\ alive' = r.alive
              /\ queue' = queue \o r.acts
              /\ recorded' = r.launched - launched
              /\ has_connected' = (has_connected \/ r.connected)
              /\ last' = [Began("launch_daemons", running.job) EXCEPT
                                      !.path = r.path, !.marked = r.marked,
                                      !.map = r.map, !.vm_calls = r.vm_calls,
                                      !.vm_rc = r.vm_rc, !.tm_init = r.tm_init,
                                      !.spawns = r.spawns,
                                      !.stopped_at = r.stopped_at, !.acts = r.acts,
                                      !.released = r.released]
    /\ running' = NoEvent
    /\ UNCHANGED <<handler, initialized, do_not_launch, nact>>

\* the event loop runs poll_spawns for the event it took
PollSpawnsEvent ==
    /\ UNCHANGED <<bufvars, valvars>>
    /\ alive /\ running # NoEvent
    /\ handler[running.state] = "poll_spawns"
    /\ \E script \in PollScripts(launched), v \in StaleReads :
        \E r \in {poll_spawns(running.job, State, [poll |-> script, stale |-> v])} :
              /\ alive' = r.alive
              /\ queue' = queue \o r.acts
              /\ last' = [Began("poll_spawns", running.job) EXCEPT
                                      !.path = r.path,
                                      !.polls = r.polls, !.acts = r.acts,
                                      !.released = r.released,
                                      !.read_after_release = r.read_after_release]
    /\ running' = NoEvent
    /\ UNCHANGED <<handler, initialized, connected, launched, jobstate,
                   do_not_launch, nact, recorded, has_connected>>

\* the event loop runs the handler another component registered
DefaultEvent ==
    /\ UNCHANGED <<bufvars, valvars>>
    /\ alive /\ running # NoEvent
    /\ handler[running.state] = "default"
    /\ running' = NoEvent
    /\ last' = NoOp
    /\ UNCHANGED <<handler, initialized, connected, launched, jobstate,
                   do_not_launch, queue, alive, nact, recorded, has_connected>>

\* another component asks the module to launch a job
LaunchJob ==
    /\ UNCHANGED <<bufvars, valvars>>
    /\ alive /\ initialized /\ running = NoEvent
    /\ nact < MaxActivations
    /\ Len(queue) < MaxQueue
    /\ \E j \in Jobs, restart \in BOOLEAN :
          LET r == plm_tm_launch_job(j, restart) IN
          /\ queue' = queue \o r.acts
          /\ last' = [Began("launch_job", j) EXCEPT !.path = r.rc,
                                                     !.restart = restart,
                                                     !.acts = r.acts]
    /\ nact' = nact + 1
    /\ UNCHANGED <<handler, initialized, connected, launched, jobstate,
                   do_not_launch, running, alive, recorded, has_connected>>

\* the framework closes the module
Finalize ==
    /\ UNCHANGED <<bufvars, valvars>>
    /\ alive /\ initialized /\ running = NoEvent
    /\ LET r == plm_tm_finalize(connected) IN
          /\ connected' = r.connected
          /\ last' = [Began("finalize", "none") EXCEPT !.path = r.rc,
                                                         !.closes = r.closes]
    /\ UNCHANGED <<handler, initialized, launched, jobstate, do_not_launch,
                   queue, running, alive, nact, recorded, has_connected>>

\* a signal is sent to a job through the module
SignalJob ==
    /\ UNCHANGED <<bufvars, valvars>>
    /\ alive /\ initialized /\ running = NoEvent
    /\ \E j \in Jobs, signal \in Signals, status \in SignalStatus :
          LET r == plm_tm_signal_job(j, signal, status) IN
          last' = [Began("signal_job", j) EXCEPT !.path = r.rc,
                                                 !.signal = signal,
                                                 !.status = status,
                                                 !.signal_calls = r.calls]
    /\ UNCHANGED <<handler, initialized, connected, launched, jobstate,
                   do_not_launch, queue, running, alive, nact, recorded,
                   has_connected>>

Next ==
    \/ ModuleInit
    \/ Activate
    \/ Dispatch
    \/ LaunchDaemonsEvent
    \/ PollSpawnsEvent
    \/ DefaultEvent
    \/ LaunchJob
    \/ Finalize

Spec == Init /\ [][Next]_vars

\* the entries of the module table that run no handler of the state machine:
\* signal_job reads and writes nothing of the module, so the signals are
\* sent between inits, launch requests and finalizes only
SignalNext ==
    \/ ModuleInit
    \/ LaunchJob
    \/ SignalJob
    \/ Finalize

SignalSpec == Init /\ [][SignalNext]_vars

\* ------------------------------------------------- the users of the buffers
BufBegan(op, b) ==
    [NoBufOp EXCEPT !.op = op, !.buf = b, !.pre = buf[b],
                    !.pre_heap = heap, !.pre_held = held,
                    !.pre_loaded = loaded[b]]

\* the caller, holding no region, allocates one and fills it with a payload
\* of n bytes
CallerAlloc ==
    /\ balive /\ nops < MaxOps /\ nops' = nops + 1 /\ malloc(heap) # 0 /\ held = {}
    /\ \E n \in 0..MaxLen :
          heap' = [heap EXCEPT ![malloc(heap)] = [live |-> TRUE, bytes |-> Payload(n)]]
    /\ held' = held \cup {malloc(heap)}
    /\ blast' = NoBufOp
    /\ UNCHANGED <<buf, loaded, balive, tmvars, valvars>>

\* the caller frees a region it holds
CallerFree ==
    /\ balive /\ nops < MaxOps /\ nops' = nops + 1
    /\ \E r \in held :
          /\ heap' = free(heap, r)
          /\ held' = held \ {r}
    /\ blast' = NoBufOp
    /\ UNCHANGED <<buf, loaded, balive, tmvars, valvars>>

\* the caller loads a buffer with a region it holds, or with NULL
Load ==
    /\ balive /\ nops < MaxOps /\ nops' = nops + 1
    /\ \E b \in BufIds, p \in {NULL} \cup {Ptr(r, 0) : r \in held} :
          LET n == IF p = NULL THEN 0 ELSE Len(heap[p.r].bytes)
              r == prrte_dss_load(heap, buf[b], p, n)
          IN  /\ heap' = r.heap
              /\ buf' = [buf EXCEPT ![b] = r.buf]
              /\ held' = held \ {p.r}
              /\ loaded' = [loaded EXCEPT ![b] =
                               IF p = NULL THEN NoLoad
                               ELSE [payload |-> p, bytes_used |-> n]]
              /\ blast' = [BufBegan("load", b) EXCEPT
                              !.rc = r.rc, !.path = r.path, !.in_payload = p,
                              !.in_len = n, !.freed = r.freed]
    /\ UNCHANGED <<balive, tmvars, valvars>>

\* the caller unloads a buffer and holds the payload it gets
Unload ==
    /\ balive /\ nops < MaxOps /\ nops' = nops + 1
    /\ \E b \in BufIds :
          LET r == prrte_dss_unload(heap, buf[b]) IN
          /\ heap' = r.heap
          /\ buf' = [buf EXCEPT ![b] = r.buf]
          /\ held' = held \cup (IF r.payload = NULL THEN {} ELSE {r.payload.r})
          /\ loaded' = [loaded EXCEPT ![b] = NoLoad]
          /\ balive' = r.alive
          /\ blast' = [BufBegan("unload", b) EXCEPT
                          !.rc = r.rc, !.path = r.path, !.payload = r.payload,
                          !.bytes_used = r.bytes_used, !.freed = r.freed]
    /\ UNCHANGED <<tmvars, valvars>>

\* the caller copies the payload of one buffer into another
CopyPayload ==
    /\ balive /\ nops < MaxOps /\ nops' = nops + 1
    /\ \E d \in BufIds, s \in BufIds, move \in BOOLEAN :
          /\ d # s
          /\ buf[d].bytes_used + Len(Unread(heap, buf[s])) <= MaxBytes
          /\ LET r == prrte_dss_copy_payload(heap, buf[d], buf[s], move) IN
             /\ heap' = r.heap
             /\ buf' = [buf EXCEPT ![d] = r.buf]
             /\ loaded' = [loaded EXCEPT ![d] = NoLoad]
             /\ blast' = [BufBegan("copy_payload", d) EXCEPT
                             !.src = s, !.rc = r.rc, !.path = r.path,
                             !.pre_src = buf[s],
                             !.freed = r.freed]
    /\ UNCHANGED <<held, balive, tmvars, valvars>>

\* prrte_dss_set_buffer_type: the type of an empty buffer is set
SetType ==
    /\ balive /\ nops < MaxOps /\ nops' = nops + 1
    /\ \E b \in BufIds, t \in BufTypes :
          /\ buf[b].base_ptr = buf[b].pack_ptr
          /\ buf[b].type # t
          /\ buf' = [buf EXCEPT ![b].type = t]
    /\ blast' = NoBufOp
    /\ UNCHANGED <<heap, held, loaded, balive, tmvars, valvars>>

\* the pack layer appends one byte to a buffer
Pack ==
    /\ balive /\ nops < MaxOps /\ nops' = nops + 1
    /\ \E b \in BufIds, move \in BOOLEAN :
          /\ buf[b].bytes_used < MaxBytes
          /\ LET e == prrte_dss_buffer_extend(heap, buf[b], 1, move) IN
             /\ e.ptr # NULL
             /\ heap' = memcpy(e.heap, e.ptr, <<PackedByte>>)
             /\ buf' = [buf EXCEPT ![b] =
                           [e.buf EXCEPT !.bytes_used = @ + 1,
                                         !.pack_ptr = Ptr(@.r, @.o + 1)]]
          /\ loaded' = [loaded EXCEPT ![b] = NoLoad]
    /\ blast' = NoBufOp
    /\ UNCHANGED <<held, balive, tmvars, valvars>>

\* the unpack layer consumes one byte of a buffer
Unpack ==
    /\ balive /\ nops < MaxOps /\ nops' = nops + 1
    /\ \E b \in BufIds :
          /\ buf[b].unpack_ptr.o < buf[b].pack_ptr.o
          /\ buf' = [buf EXCEPT ![b].unpack_ptr = Ptr(@.r, @.o + 1)]
          /\ loaded' = [loaded EXCEPT ![b] = NoLoad]
    /\ blast' = NoBufOp
    /\ UNCHANGED <<heap, held, balive, tmvars, valvars>>

BufNext ==
    \/ CallerAlloc
    \/ CallerFree
    \/ Load
    \/ Unload
    \/ CopyPayload
    \/ SetType
    \/ Pack
    \/ Unpack

BufInit == Init /\ ~do_not_launch

BufSpec == BufInit /\ [][BufNext]_vars


\* ------------------------------------------------------------- properties
IsLaunch == last.op = "launch_daemons"

IsPoll == last.op = "poll_spawns"

\* the slots of the nodes tm_spawn was called for, in call order
SpawnedSlots == [k \in 1..Len(last.spawns) |-> last.spawns[k].slot]

\* the slots of the nodes of m that lack the daemon-launched flag, in map order
LackingDaemon(m) ==
    SelectSeq([i \in 1..Len(m.nodes) |-> i],
              LAMBDA i : m.nodes[i].present /\ ~m.nodes[i].daemon_launched)

FailedToStart(j) == <<Activation(j, "FAILED_TO_START")>>

DaemonsReported(j) == <<Activation(j, "DAEMONS_REPORTED")>>

\* C1: when tm_spawn fails for the k-th node lacking a daemon, tm_spawn has
\* been called for exactly the 1st..k-th such nodes in map order and for none
\* after it, the k-1 spawns issued before stay counted in `launched`, and
\* the handler sets no job to DAEMONS_LAUNCHED.
C1_SpawnFailureAbortsLoop ==
    (IsLaunch /\ last.path = "spawn_failed") =>
        LET k == Len(last.spawns)
            want == LackingDaemon(last.map)
        IN  /\ k >= 1 /\ k <= Len(want)
            /\ SpawnedSlots = SubSeq(want, 1, k)
            /\ last.stopped_at = want[k]
            /\ launched = last.was_launched + k - 1
            /\ last.marked = {}

\* a spawn failed on the first of two nodes lacking a daemon
C1_Witness ==
    /\ IsLaunch /\ last.path = "spawn_failed"
    /\ Len(last.spawns) = 1
    /\ Len(LackingDaemon(last.map)) = 2

FailurePaths == {"vm_error", "no_map", "no_memory", "connect_busy",
                 "no_launch_id", "spawn_failed"}

\* what every failure path of the handler does besides the escalation:
\* DAEMONS_REPORTED is not activated, a failed VM setup or an exhausted
\* connect is a failure path, and after a launch-id failure tm_spawn was
\* called for no node at or after the failing one
FailurePathRest ==
    /\ (last.vm_rc = "ERROR" => last.path = "vm_error")
    /\ (last.tm_init # << >> /\ ~last.tm_init[Len(last.tm_init)]
            => last.path = "connect_busy")
    /\ (last.path = "no_launch_id" =>
            \A k \in 1..Len(last.spawns) : last.spawns[k].slot < last.stopped_at)
    /\ (last.path = "launched" => last.acts = << >>)

\* C2 (as amended): on every failure path of the handler FAILED_TO_START is
\* activated exactly once, on the daemon job object, and nothing else is
\* activated; after a launch-id failure tm_spawn is called for neither that
\* node nor a later one; the successful path activates nothing.
C2_FailureEscalatesDaemonJob ==
    IsLaunch =>
        /\ (last.path \in FailurePaths => last.acts = FailedToStart(DaemonsJob))
        /\ FailurePathRest

\* C2 as stated: the job whose launch was requested is the one escalated
C2_FailureEscalatesRequestedJob ==
    IsLaunch =>
        /\ (last.path \in FailurePaths => last.acts = FailedToStart(last.job))
        /\ FailurePathRest

\* the launch of the application job stopped at a node without launch id,
\* after a spawn
C2_Witness ==
    /\ IsLaunch /\ last.job = "app" /\ last.path = "no_launch_id"
    /\ Len(last.spawns) = 1

\* the launch asks for a dry run, or the map has no new daemon
DryRunOrNoNewDaemons ==
    do_not_launch \/ (last.map.present /\ last.map.num_new_daemons = 0)

\* no connect, no spawn, the job set to DAEMONS_LAUNCHED, DAEMONS_REPORTED
\* activated once for it and nothing else activated
ShortCircuited ==
    /\ last.tm_init = << >>
    /\ last.spawns = << >>
    /\ last.job \in last.marked
    /\ jobstate[last.job] = "DAEMONS_LAUNCHED"
    /\ last.acts = DaemonsReported(last.job)

\* C3 (as amended): unless the VM setup fails, a launch with the
\* do-not-launch attribute on the daemon job object, or with a map whose
\* new-daemon count is zero, calls neither connect nor tm_spawn, sets the job
\* to DAEMONS_LAUNCHED and activates DAEMONS_REPORTED once and nothing else.
C3_DryRunShortCircuits ==
    (IsLaunch /\ last.vm_rc # "ERROR" /\ DryRunOrNoNewDaemons) => ShortCircuited

\* C3 as stated: whatever the VM setup answers
C3_DryRunAlwaysShortCircuits ==
    (IsLaunch /\ DryRunOrNoNewDaemons) => ShortCircuited

\* a dry run over a map that has nodes to launch
C3_Witness ==
    /\ IsLaunch /\ ~DEBUGGER_DAEMON(last.job) /\ last.vm_rc = "SUCCESS"
    /\ do_not_launch
    /\ last.map.present /\ last.map.num_new_daemons > 0
    /\ Len(LackingDaemon(last.map)) > 0

\* C4: for a debugger-daemon job the handler calls neither the VM setup nor
\* connect nor tm_spawn whatever the map holds, sets the job to
\* DAEMONS_LAUNCHED and activates DAEMONS_REPORTED for it.
C4_DebuggerDaemonNeverSpawns ==
    (IsLaunch /\ DEBUGGER_DAEMON(last.job)) =>
        /\ last.vm_calls = 0
        /\ last.tm_init = << >>
        /\ last.spawns = << >>
        /\ last.marked = {last.job}
        /\ jobstate[last.job] = "DAEMONS_LAUNCHED"
        /\ last.acts = DaemonsReported(last.job)

\* a debugger-daemon launch while the map has nodes lacking a daemon and a
\* non-zero new-daemon count
C4_Witness ==
    /\ IsLaunch /\ DEBUGGER_DAEMON(last.job)
    /\ ~do_not_launch
    /\ last.map.present /\ last.map.num_new_daemons > 0
    /\ Len(LackingDaemon(last.map)) > 0

\* C5: when the handler ends on the successful path, tm_spawn was called
\* exactly once for each node lacking the daemon-launched flag, in map
\* order, and for nothing else; each call carries the rank of its node in
\* the reserved argv slot and the launch id of its node; the job and the
\* daemon job object are in state DAEMONS_LAUNCHED.
C5_SpawnsEachNodeOnce ==
    (IsLaunch /\ last.path = "launched") =>
        /\ SpawnedSlots = LackingDaemon(last.map)
        /\ \A k \in 1..Len(last.spawns) :
              LET c == last.spawns[k] IN
              /\ c.argv[proc_vpid_index] = vpid_to_string(NodeRank(c.slot))
              /\ c.launchid = NodeLaunchId(c.slot)
        /\ jobstate[last.job] = "DAEMONS_LAUNCHED"
        /\ jobstate[DaemonsJob] = "DAEMONS_LAUNCHED"

\* a successful launch of the application job over a map with a node that
\* has its daemon and a node that lacks it
C5_Witness ==
    /\ IsLaunch /\ last.path = "launched" /\ last.job = "app"
    /\ last.map.nodes[1].present /\ last.map.nodes[1].daemon_launched
    /\ SpawnedSlots = <<2>>

\* C6 as stated: a poll step in which no poll fails calls tm_poll as many
\* times as the launch attempt before it recorded spawn handles.
C6_PollsMatchRecordedHandles ==
    (IsPoll /\ last.path = "confirmed") => Len(last.polls) = recorded

\* the answers of the tm_poll calls of the poll step that are not successes
PollFailures == {k \in 1..Len(last.polls) : last.polls[k] # "ok"}

\* C7 as stated: the first failing tm_poll is the last tm_poll of the poll
\* step, and the step then activates FAILED_TO_START exactly once, for the
\* job of its caddy; when every tm_poll confirms, the step activates nothing
\* and sets no job state.
C7_PollFailureEscalatesJob ==
    IsPoll =>
        /\ PollFailures \subseteq {Len(last.polls)}
        /\ (PollFailures # {} => last.acts = FailedToStart(last.job))
        /\ (PollFailures = {} => last.acts = << >> /\ last.marked = {})

\* C8 as stated: with poll_spawns installed as the handler of
\* DAEMONS_LAUNCHED, a launch in which every spawn succeeds activates
\* DAEMONS_LAUNCHED for its job.
C8_LaunchActivatesPollStep ==
    (IsLaunch /\ last.path = "launched"
              /\ handler["DAEMONS_LAUNCHED"] = "poll_spawns") =>
        \E k \in 1..Len(last.acts) :
            last.acts[k] = Activation(last.job, "DAEMONS_LAUNCHED")

\* C9 (as amended): a launch attempt that begins with the connection open
\* (connected, and not closed by plm_tm_finalize since) makes no tm_init call
\* and leaves the connection open.
C9_NoConnectWhileConnected ==
    (IsLaunch /\ last.was_connected) => (last.tm_init = << >> /\ connected)

\* C9 as stated: once a connect has succeeded in the process, no later
\* launch attempt calls tm_init, finalize calls included
C9_ConnectsAtMostOnce ==
    (IsLaunch /\ last.had_connected) => last.tm_init = << >>

\* a launch that begins connected and goes on to spawn
C9_Witness ==
    /\ IsLaunch /\ last.was_connected /\ last.had_connected
    /\ Len(last.spawns) > 0

\* C10: a launch makes at most 10 tm_init calls, all but the last failing;
\* the connect step succeeds at the first successful call and the launch ends
\* on the busy path exactly when all 10 calls fail; the busy path makes no
\* tm_spawn call, leaves `connected` false and escalates; and no other step
\* is repeated: one VM setup at most, one tm_spawn per node at most, one
\* tm_poll per recorded handle at most.
C10_ConnectBoundedRetry ==
    /\ IsLaunch =>
          LET t == last.tm_init
              n == Len(t)
          IN  /\ n <= ConnectTries
              /\ \A i \in 1..(n - 1) : ~t[i]
              /\ (n > 0 /\ t[n]) => connected
              /\ (last.path = "connect_busy") <=> (n = ConnectTries /\ ~t[n])
              /\ (last.path = "connect_busy") =>
                    /\ last.spawns = << >>
                    /\ ~connected
                    /\ last.marked = {}
                    /\ last.acts = FailedToStart(DaemonsJob)
              /\ last.vm_calls <= 1
              /\ \A j, k \in 1..Len(last.spawns) :
                    last.spawns[j].slot = last.spawns[k].slot => j = k
    /\ IsPoll => Len(last.polls) <= last.was_launched

\* a launch in which all 10 tm_init calls failed
C10_Witness ==
    /\ IsLaunch /\ last.path = "connect_busy"
    /\ Len(last.tm_init) = ConnectTries
    /\ Len(LackingDaemon(last.map)) > 0

\* C11 as stated: after a launch in which tm_spawn succeeded for a node, the
\* map the handler leaves has the daemon-launched flag of that node set (so
\* that the next launch over the map skips the node).
C11_SpawnSetsDaemonLaunchedFlag ==
    (IsLaunch /\ last.path = "launched") =>
        \A k \in 1..Len(last.spawns) :
            last.map.nodes[last.spawns[k].slot].daemon_launched

IsLaunchJob == last.op = "launch_job"

\* C12: a call of plm_tm_launch_job activates one state and nothing else, MAP
\* for a job with the restart flag and INIT otherwise; it sets no job state
\* field, calls neither tm_init nor tm_spawn, leaves `connected` and
\* `launched` alone and returns PRTE_SUCCESS.
C12_LaunchJobActivatesOneState ==
    IsLaunchJob =>
        /\ last.acts = <<Activation(last.job,
                                    IF last.restart THEN "MAP" ELSE "INIT")>>
        /\ last.marked = {}
        /\ last.tm_init = << >> /\ last.spawns = << >>
        /\ connected = last.was_connected /\ launched = last.was_launched
        /\ last.path = "SUCCESS"

\* a restarted job is launched
C12_Witness == IsLaunchJob /\ last.restart /\ last.job = "app"

IsFinalize == last.op = "finalize"

\* C13: a call of plm_tm_finalize calls tm_finalize exactly when the
\* connection is open, once, leaves the connection closed and returns
\* PRTE_SUCCESS; called when never connected, or again after a finalize, it
\* closes nothing.
C13_FinalizeIdempotent ==
    IsFinalize =>
        /\ last.closes = (IF last.was_connected THEN 1 ELSE 0)
        /\ last.was_connected => last.had_connected
        /\ ~connected
        /\ last.path = "SUCCESS"

\* a finalize of a module whose connection an earlier finalize closed
C13_Witness ==
    IsFinalize /\ last.had_connected /\ ~last.was_connected /\ last.closes = 0

\* -------------------------------------------------- the users of the values
\* the kinds the callers use: a scalar of one, of four and of eight bytes,
\* the kinds with a case of their own, PRRTE_VPID, which only the switch of
\* unload has, and a type no switch has
Kinds == {"BOOL", "INT32", "UINT64", "STRING", "BYTE_OBJECT",
          "TIMEVAL", "PTR", "VPID", "DOUBLE"}

\* an object of n bytes, each byte another
Pattern(n) == [i \in 1..n |-> Byte(i)]

CallerBlocks(h) == {q \in Blocks : h[q].live /\ h[q].owner = "caller"}

\* the data arguments a caller passes with type t; a pointer stored as
\* PRRTE_PTR may be any the caller can read, a string of a value included
Sources(h, t) ==
    {NullData} \cup
    CASE t = "STRING" -> {PtrData(c) : c \in CallerBlocks(h)}
      [] t = "PTR" -> {PtrData(q) : q \in {b \in Blocks : h[b].live}}
      [] t = "BYTE_OBJECT" ->
            {BoData(0, NullPtr)} \cup
            {BoData(1, c) : c \in {q \in CallerBlocks(h) : Len(h[q].bytes) = 2}}
      [] t = "DOUBLE" -> {ObjData(Pattern(PointerSize))}
      [] OTHER -> {ObjData(Pattern(Width(t)))}

\* the content a data argument of type t stands for
Content(h, t, data) ==
    CASE t = "STRING" -> deref(h, data.ptr)
      [] t = "BYTE_OBJECT" ->
            IF data.ptr # NullPtr /\ 0 < data.size
            THEN readn(h, data.ptr, data.size) ELSE << >>
      [] OTHER -> << >>

VBegan(op, v) ==
    [NoValOp EXCEPT !.op = op, !.v = v, !.was_type = val[v].type,
                    !.owned = Owned(val[v])]

\* the outcomes of an undefined step of the operation, r_crash being what
\* the operation gives when such a step ends the process
UBChoices(r_crash) == IF r_crash.alive THEN {"goes_on"} ELSE UBOutcomes

\* a caller loads a value
VLoad ==
    /\ valive /\ vnops < MaxVOps /\ vnops' = vnops + 1
    /\ FreeBlocks(vheap) # {}
    /\ \E v \in ValIds, t \in Kinds :
       \E data \in Sources(vheap, t) :
       \E rc \in {prrte_value_load(vheap, val[v], data, t, "crash")} :
       \E ub \in UBChoices(rc) :
       \E r \in {IF ub = "crash" THEN rc
                  ELSE prrte_value_load(vheap, val[v], data, t, ub)} :
          /\ vheap' = r.heap
          /\ val' = [val EXCEPT ![v] = r.kv]
          /\ valive' = r.alive
          /\ vstored' = [vstored EXCEPT ![v] =
                            IF r.rc = "SUCCESS" /\ r.alive /\ ~data.null
                            THEN [active |-> TRUE, type |-> t, data |-> data,
                                  content |-> Content(vheap, t, data)]
                            ELSE NoStore]
          /\ xferred' = IF xferred.dest = v THEN NoXfer ELSE xferred
          /\ vlast' = [VBegan("load", v) EXCEPT !.type = t, !.data = data,
                                                !.rc = r.rc, !.freed = r.freed]
    /\ UNCHANGED <<tmvars, bufvars>>

\* the types a caller asks an unload for: the tag of the value and another
UnloadTypes(kv) == {kv.type, IF kv.type = "STRING" THEN "INT32" ELSE "STRING"}

\* a caller unloads a value and holds what it gets
VUnload ==
    /\ valive /\ vnops < MaxVOps /\ vnops' = vnops + 1
    /\ FreeBlocks(vheap) # {}
    /\ \E v \in {"dest"}, slot \in OutSlots :
       \E t \in UnloadTypes(val[v]) :
       \E rc \in {prrte_value_unload(vheap, val[v], slot, t, "crash")} :
       \E ub \in UBChoices(rc) :
       \E r \in {IF ub = "crash" THEN rc
                  ELSE prrte_value_unload(vheap, val[v], slot, t, ub)} :
          /\ vheap' = r.heap
          /\ val' = [val EXCEPT ![v] = r.kv]
          /\ valive' = r.alive
          /\ vlast' = [VBegan("unload", v) EXCEPT !.type = t, !.slot = slot,
                                                  !.rc = r.rc, !.out = r.out,
                                                  !.freed = r.freed]
    /\ UNCHANGED <<vstored, xferred, tmvars, bufvars>>

\* a caller transfers one value into another
VXfer ==
    /\ valive /\ vnops < MaxVOps /\ vnops' = vnops + 1
    /\ Cardinality(FreeBlocks(vheap)) >= 2
    /\ \E d \in {"dest"}, s \in {"src"} :
       \E rc \in {prrte_value_xfer(vheap, val[d], val[s], "crash")} :
       \E ub \in UBChoices(rc) :
       \E r \in {IF ub = "crash" THEN rc
                  ELSE prrte_value_xfer(vheap, val[d], val[s], ub)} :
             /\ vheap' = r.heap
             /\ val' = [val EXCEPT ![d] = r.kv]
             /\ valive' = r.alive
             /\ vstored' = [vstored EXCEPT ![d] = NoStore]
             /\ xferred' = IF r.rc = "SUCCESS" /\ r.alive
                           THEN [active |-> TRUE, dest |-> d, src |-> s,
                                 view |-> View(r.heap, r.kv)]
                           ELSE NoXfer
             /\ vlast' = [VBegan("xfer", d) EXCEPT !.src = s,
                                                   !.type = val[s].type,
                                                   !.rc = r.rc, !.freed = r.freed]
    /\ UNCHANGED <<tmvars, bufvars>>

\* the key a caller gives a value
CallerKey == <<9>>

\* a caller gives a value without a key a key: kv->key = strdup(key)
VSetKey ==
    /\ valive /\ vnops < MaxVOps /\ vnops' = vnops + 1
    /\ FreeBlocks(vheap) # {}
    /\ \E v \in {"src"} :
          /\ val[v].key = NullPtr
          /\ vheap' = [vheap EXCEPT ![vmalloc(vheap)] =
                          [live |-> TRUE, owner |-> "value", bytes |-> CallerKey]]
          /\ val' = [val EXCEPT ![v].key = vmalloc(vheap)]
    /\ vlast' = NoValOp
    /\ UNCHANGED <<vstored, xferred, valive, tmvars, bufvars>>

\* PRRTE_DESTRUCT(kv) and PRRTE_CONSTRUCT(kv, prrte_value_t): the key and the
\* string or the bytes the tag says the value holds are freed
VRelease ==
    /\ valive /\ vnops < MaxVOps /\ vnops' = vnops + 1
    /\ \E v \in ValIds :
          LET kv == val[v]
              q  == CASE kv.type = "STRING" -> PtrOf(Read(kv.data, 0, PointerSize))
                      [] kv.type = "BYTE_OBJECT" ->
                            PtrOf(Read(kv.data, bo_bytes_offset, PointerSize))
                      [] OTHER -> NullPtr
              gone == ({kv.key, q} \ {NullPtr}) \cap Blocks
          IN  /\ kv # ConstructedValue
              /\ vheap' = [b \in Blocks |-> IF b \in gone THEN FreeBlock ELSE vheap[b]]
              /\ val' = [val EXCEPT ![v] = ConstructedValue]
              /\ vstored' = [vstored EXCEPT ![v] = NoStore]
              /\ xferred' = IF xferred.dest = v THEN NoXfer ELSE xferred
    /\ vlast' = NoValOp
    /\ UNCHANGED <<valive, tmvars, bufvars>>

\* a caller frees a block it owns
VCallerFree ==
    /\ valive /\ vnops < MaxVOps /\ vnops' = vnops + 1
    /\ \E c \in CallerBlocks(vheap) : vheap' = [vheap EXCEPT ![c] = FreeBlock]
    /\ vlast' = NoValOp
    /\ UNCHANGED <<val, vstored, xferred, valive, tmvars, bufvars>>

ValNext ==
    \/ VLoad
    \/ VUnload
    \/ VXfer
    \/ VSetKey
    \/ VRelease
    \/ VCallerFree

ValInit == Init /\ ~do_not_launch

ValSpec == ValInit /\ [][ValNext]_vars

\* ------------------------------------------------- properties of the buffers
IsLoad == blast.op = "load"

IsUnload == blast.op = "unload"

IsCopy == blast.op = "copy_payload"

\* the buffer the most recent operation worked on, before and after
Pre == blast.pre

Post == buf[blast.buf]

\* the fields of a fresh buffer besides the type
Empty(b) ==
    /\ b.base_ptr = NULL /\ b.pack_ptr = NULL /\ b.unpack_ptr = NULL
    /\ b.bytes_allocated = 0 /\ b.bytes_used = 0

\* base <= unpack <= pack <= base + capacity in the region of base, and the
\* used length is the distance from base to pack
CursorsInOrder(b) ==
    /\ heap[b.base_ptr.r].live
    /\ b.unpack_ptr.r = b.base_ptr.r /\ b.pack_ptr.r = b.base_ptr.r
    /\ b.base_ptr.o <= b.unpack_ptr.o
    /\ b.unpack_ptr.o <= b.pack_ptr.o
    /\ b.pack_ptr.o <= b.base_ptr.o + b.bytes_allocated
    /\ b.bytes_used = b.pack_ptr.o - b.base_ptr.o

\* C14: in every state reached by load, unload and copy_payload calls (and
\* the pack and unpack steps between them) every buffer is either empty, all
\* pointers null and both lengths zero, or has base <= unpack cursor <= pack
\* cursor <= base + capacity with the used length equal to pack cursor - base.
C14_BufferInvariant ==
    balive => \A b \in BufIds :
        IF buf[b].base_ptr = NULL THEN Empty(buf[b]) ELSE CursorsInOrder(buf[b])

\* a copy into a partly consumed buffer left it with room to spare
C14_Witness ==
    /\ IsCopy /\ blast.path = "copied"
    /\ Post.unpack_ptr.o > 0
    /\ Post.bytes_used < Post.bytes_allocated

\* C15 as stated: after every successful unload the buffer is fresh (null
\* base and cursors, zero used length and capacity) and owns no region.
C15_UnloadLeavesFreshBuffer ==
    (IsUnload /\ blast.rc = "SUCCESS") => Empty(Post)

\* the region r is allocated, holds the bytes it held before the operation,
\* was not freed by it, and exactly one party holds it: the caller
OnlyCallerOwns(r) ==
    /\ heap[r].live /\ heap[r].bytes = blast.pre_heap[r].bytes
    /\ \A k \in 1..Len(blast.freed) : blast.freed[k] # r
    /\ r \in held
    /\ \A b \in BufIds : buf[b].base_ptr.r # r

\* the same, the one party being the buffer b
OnlyBufferOwns(r, b) ==
    /\ heap[r].live /\ heap[r].bytes = blast.pre_heap[r].bytes
    /\ \A k \in 1..Len(blast.freed) : blast.freed[k] # r
    /\ r \notin held
    /\ \A c \in BufIds : (buf[c].base_ptr.r = r) <=> (c = b)

\* a load of a non-null region leaves the buffer its only owner
LoadTakesOwnership ==
    (IsLoad /\ blast.in_payload # NULL) =>
        /\ blast.in_payload.r \in blast.pre_held
        /\ OnlyBufferOwns(blast.in_payload.r, blast.buf)

\* an unload of a buffer nothing has touched since the load of the region
\* blast.pre_loaded gives back that region and its length, the caller its
\* only owner
UnloadGivesBackLoaded ==
    /\ blast.rc = "SUCCESS"
    /\ blast.payload = blast.pre_loaded.payload
    /\ blast.bytes_used = blast.pre_loaded.bytes_used
    /\ OnlyCallerOwns(blast.payload.r)

\* C16 as stated: loading a buffer with a non-null region P of any length L
\* and unloading it before any read gives back the region P itself and the
\* length L; the region is neither copied nor freed, and after the load the
\* buffer alone, after the unload the caller alone, owns it.
C16_ZeroCopyUnload ==
    /\ LoadTakesOwnership
    /\ (IsUnload /\ blast.pre_loaded.payload # NULL) => UnloadGivesBackLoaded

\* the bytes of the buffer before the operation and those not yet unpacked
PrePacked == Packed(blast.pre_heap, Pre)

PreUnread == Unread(blast.pre_heap, Pre)

\* C17: when unload returns for a buffer of N > 0 bytes of which K > 0 have
\* been unpacked, it gives back the length N - K and, for K < N, a region
\* allocated by the call, other than the buffer's region, holding the unread
\* bytes, and for K = N a null payload; the buffer's region is freed exactly
\* once.
C17_PartialUnloadCopiesTail ==
    (IsUnload /\ blast.rc = "SUCCESS" /\ Pre.base_ptr # NULL
              /\ Pre.bytes_used > 0 /\ Pre.unpack_ptr.o > 0) =>
        LET N == Pre.bytes_used
            K == Pre.unpack_ptr.o - Pre.base_ptr.o
        IN  /\ blast.bytes_used = N - K
            /\ (K = N) => blast.payload = NULL
            /\ (K < N) =>
                  /\ blast.payload # NULL
                  /\ blast.payload.r # Pre.base_ptr.r
                  /\ ~blast.pre_heap[blast.payload.r].live
                  /\ heap[blast.payload.r].live
                  /\ heap[blast.payload.r].bytes = PreUnread
                  /\ blast.payload.r \in held
            /\ blast.freed = <<Pre.base_ptr.r>>
            /\ ~heap[Pre.base_ptr.r].live

\* one of two bytes was unpacked before the unload
C17_Witness ==
    /\ IsUnload /\ blast.rc = "SUCCESS"
    /\ Pre.bytes_used = 2 /\ Pre.unpack_ptr.o = 1
    /\ blast.bytes_used = 1

\* C18: a load frees the region the buffer owned, once, and forgets the
\* unpack position; with a null payload it leaves the buffer empty, with a
\* payload of length L it leaves base = unpack cursor = payload, pack cursor
\* = payload + L and used length = capacity = L.
C18_LoadReplacesContents ==
    IsLoad =>
        /\ blast.rc = "SUCCESS"
        /\ blast.freed = (IF Pre.base_ptr # NULL THEN <<Pre.base_ptr.r>> ELSE << >>)
        /\ Pre.base_ptr # NULL => ~heap[Pre.base_ptr.r].live
        /\ blast.in_payload = NULL => Empty(Post)
        /\ blast.in_payload # NULL =>
              /\ Post.base_ptr = blast.in_payload
              /\ Post.unpack_ptr = blast.in_payload
              /\ Post.pack_ptr = Ptr(blast.in_payload.r,
                                     blast.in_payload.o + blast.in_len)
              /\ Post.bytes_used = blast.in_len
              /\ Post.bytes_allocated = blast.in_len

\* a region was loaded into a partly consumed buffer
C18_Witness ==
    /\ IsLoad /\ blast.in_payload # NULL /\ blast.in_len > 0
    /\ Pre.unpack_ptr.o > 0 /\ Pre.unpack_ptr.o < Pre.bytes_used

\* the source of the copy before and after, and its unread bytes before
PreSrc == blast.pre_src

PostSrc == buf[blast.src]

SrcTail == Unread(blast.pre_heap, PreSrc)

\* C19: a successful copy_payload leaves in dest the bytes it held followed
\* by the unread bytes of src, the used length and the pack cursor advanced by
\* their number, the unpack position where it was, and src and its bytes as
\* they were (so a second call appends the same bytes again).
C19_CopyPayloadAppendsTail ==
    (IsCopy /\ blast.rc = "SUCCESS") =>
        /\ Packed(heap, Post) = PrePacked \o SrcTail
        /\ Post.bytes_used = Pre.bytes_used + Len(SrcTail)
        /\ Post.pack_ptr.o = Pre.pack_ptr.o + Len(SrcTail)
        /\ Post.unpack_ptr.o = Pre.unpack_ptr.o
        /\ PostSrc = PreSrc
        /\ Packed(heap, PostSrc) = Packed(blast.pre_heap, PreSrc)

\* a copy from a partly consumed src into a dest that already ends with the
\* unread bytes of src
C19_Witness ==
    /\ IsCopy /\ blast.path = "copied"
    /\ PreSrc.unpack_ptr.o > 0
    /\ Len(PrePacked) >= Len(SrcTail)
    /\ SubSeq(PrePacked, Len(PrePacked) - Len(SrcTail) + 1, Len(PrePacked)) = SrcTail

\* C20: copy_payload into a dest that holds data of a type other than that
\* of src returns PRRTE_ERR_BUFFER and leaves dest, src and every byte as
\* they were.
C20_TypeMismatchLeavesDest ==
    (IsCopy /\ Pre.bytes_used # 0 /\ Pre.type # PreSrc.type) =>
        /\ blast.rc = "ERR_BUFFER"
        /\ Post = Pre
        /\ PostSrc = PreSrc
        /\ heap = blast.pre_heap
        /\ blast.freed = << >>

\* a copy of unread bytes into a dest of another type
C20_Witness ==
    /\ IsCopy /\ Pre.bytes_used # 0 /\ Pre.type # PreSrc.type
    /\ Len(SrcTail) > 0

\* C21 as stated: copy_payload from a src with no unread bytes returns success
\* and leaves dest as it was, whether dest was empty or held data.
C21_ConsumedSrcIsNoOp ==
    (IsCopy /\ Len(SrcTail) = 0) =>
        /\ blast.rc = "SUCCESS"
        /\ Post = Pre
        /\ heap = blast.pre_heap

\* C21 (as amended): copy_payload from a src with no unread bytes into a dest
\* that is empty or of the type of src returns success and leaves the region,
\* the cursors, the lengths and the bytes of dest as they were; the type of
\* dest becomes that of src, a change only for an empty dest of another type.
C21_ConsumedSrcKeepsBytes ==
    (IsCopy /\ Len(SrcTail) = 0 /\ (Pre.bytes_used = 0 \/ Pre.type = PreSrc.type)) =>
        /\ blast.rc = "SUCCESS"
        /\ Post = [Pre EXCEPT !.type = PreSrc.type]
        /\ heap = blast.pre_heap
        /\ PostSrc = PreSrc

\* a copy from a src whose bytes were all unpacked into a dest holding data
C21_Witness ==
    /\ IsCopy /\ blast.path = "nothing_left"
    /\ PreSrc.unpack_ptr.o > 0
    /\ Pre.bytes_used > 0

\* C29 as stated: every tm_spawn of a launch records its task id and its
\* event at an index below the num_new_daemons the arrays of that launch were
\* sized with.
C29_SpawnIndexInsideArrays ==
    IsLaunch =>
        \A k \in 1..Len(last.spawns) : last.spawns[k].idx < last.spawns[k].size

\* C30 as stated: launch_daemons and poll_spawns release their caddy exactly
\* once on every path and never read it after the release.
C30_CaddyReleasedOnceNeverReadAfter ==
    (IsLaunch \/ IsPoll) =>
        /\ last.released = 1
        /\ last.read_after_release = 0

IsSignalJob == last.op = "signal_job"

\* C28: plm_tm_signal_job calls prte_plm_base_prted_signal_local_procs once,
\* with the namespace and the signal it was given, and returns what that call
\* returned.
C28_SignalJobForwards ==
    IsSignalJob =>
        /\ last.signal_calls = <<[jobid |-> last.job, signal |-> last.signal]>>
        /\ last.path = last.status

\* a signal other than SIGTERM was sent and the broadcast failed
C28_Witness ==
    /\ IsSignalJob /\ last.signal = 9 /\ last.job = "app"
    /\ last.status = "ERR_COMM_FAILURE"

\* -------------------------------------------------- properties of the values
IsVLoad == vlast.op = "load"

IsVUnload == vlast.op = "unload"

IsVXfer == vlast.op = "xfer"

\* the output of the most recent unload equals the source st of a load
OutEquals(st) ==
    CASE st.type = "STRING" ->
            /\ vlast.out.kind = "ptr" /\ vlast.out.ptr # NullPtr
            /\ readable(vheap, vlast.out.ptr)
            /\ vheap[vlast.out.ptr].bytes = st.content
      [] st.type = "BYTE_OBJECT" ->
            /\ vlast.out.kind = "bo"
            /\ vlast.out.size = Len(st.content)
            /\ deref(vheap, vlast.out.ptr) = st.content
      [] st.type = "PTR" ->
            vlast.out.kind = "ptr" /\ vlast.out.ptr = st.data.ptr
      [] OTHER ->
            /\ vlast.out.kind = "bytes"
            /\ vlast.out.bytes = SubSeq(st.data.bytes, 1, Width(st.type))

\* an unload, through a good slot and with the type of the load, of a value
\* nothing has touched since a load of a non-null source succeeds and gives
\* an output equal to the source
RoundTrip ==
    (IsVUnload /\ vstored[vlast.v].active /\ vlast.type = vstored[vlast.v].type
               /\ vlast.slot = GoodSlot) =>
        (vlast.rc = "SUCCESS" /\ OutEquals(vstored[vlast.v]))

\* a load of a non-null source with a type the switch of unload has succeeds
UnloadKindsLoad ==
    (IsVLoad /\ ~vlast.data.null /\ vlast.type \in UnloadKinds) =>
        vlast.rc = "SUCCESS"

\* C22 as stated: for every kind, a load of a source followed by an unload
\* with the same type succeeds and gives an output equal to the source, and
\* every type unload accepts is accepted by load.
C22_LoadUnloadRoundTrip == RoundTrip /\ UnloadKindsLoad

\* C23 as stated: a load or a transfer that installs a payload frees the
\* string or the bytes the value owned, once, and frees nothing else.
C23_OwnedPayloadReleasedOnce ==
    ((IsVLoad \/ IsVXfer) /\ vlast.rc = "SUCCESS") =>
        vlast.freed = (IF vlast.owned # NullPtr THEN <<vlast.owned>> ELSE << >>)

\* C24 as stated: a load with a type the switch of load does not have
\* returns PRRTE_ERR_NOT_SUPPORTED, whether the source is NULL or not.
C24_LoadUnsupportedType ==
    (IsVLoad /\ vlast.type \notin LoadKinds) => vlast.rc = "ERR_NOT_SUPPORTED"

\* a step that is a call of the operation op
Called(op) == vnops' # vnops /\ vlast'.op = op

\* C25: an unload with a type other than the tag of the value returns
\* PRRTE_ERR_TYPE_MISMATCH whatever the output slot is, and leaves the value,
\* the slot and the heap as they were; no unload changes the value.
C25_UnloadTypeMismatch ==
    [][Called("unload") =>
          /\ val' = val
          /\ (vlast'.type # val[vlast'.v].type) =>
                /\ vlast'.rc = "ERR_TYPE_MISMATCH"
                /\ vlast'.out = NoOut
                /\ vheap' = vheap]_vars

\* an unload through a NULL slot with a type other than the tag
C25_Witness ==
    /\ IsVUnload /\ vlast.type # vlast.was_type /\ vlast.slot.data_null
    /\ vlast.rc = "ERR_TYPE_MISMATCH"

\* the key of kv, by content
KeyView(h, kv) ==
    [null |-> (kv.key = NullPtr), bytes |-> deref(h, kv.key),
     ok |-> (kv.key = NullPtr \/ readable(h, kv.key))]

\* what a successful transfer leaves: dest with the type of src and a payload
\* equal to that of src, the key of src copied when it has one, src and what
\* it holds as they were, and no block shared by the two
XferCopies ==
    LET d == val'[vlast'.v]
        s == val[vlast'.src]
    IN  /\ d.type = s.type
        /\ View(vheap', d) = View(vheap, s)
        /\ View(vheap', d).ok
        /\ s.key # NullPtr => /\ KeyView(vheap', d) = KeyView(vheap, s)
                              /\ d.key # s.key
        /\ val'[vlast'.src] = s
        /\ View(vheap', s) = View(vheap, s)
        /\ KeyView(vheap', s) = KeyView(vheap, s)
        /\ Owned(d) # NullPtr => Owned(d) # Owned(s)

\* C26 as stated: after a successful transfer dest has the type of src, a payload and
\* (when src has one) a key equal to those of src, src is as it was, and the
\* string, bytes and key of dest are copies of its own: as long as nothing
\* writes dest, whatever is done to src (load, release) leaves what an unload
\* of dest returns as it was right after the transfer.
C26_XferDeepCopies ==
    /\ [][(Called("xfer") /\ vlast'.rc = "SUCCESS" /\ valive') => XferCopies]_vars
    /\ [](xferred.active => View(vheap, val[xferred.dest]) = xferred.view)

\* C27 as stated: a transfer from a src whose tag the switch does not have
\* returns PRRTE_ERR_NOT_SUPPORTED and leaves dest such that an unload of dest
\* with the type it had before the call succeeds and returns the payload it
\* had before the call.
C27_XferUnsupportedKeepsDest ==
    [][(Called("xfer") /\ val[vlast'.src].type \notin XferKinds
                       /\ val[vlast'.v].type \in UnloadKinds) =>
          /\ vlast'.rc = "ERR_NOT_SUPPORTED"
          /\ prrte_value_unload(vheap', val'[vlast'.v], GoodSlot,
                                val[vlast'.v].type, "goes_on").rc = "SUCCESS"
          /\ View(vheap', [val'[vlast'.v] EXCEPT !.type = val[vlast'.v].type])
                = View(vheap, val[vlast'.v])]_vars

====
